---- MODULE Spec2Model ----
(***************************************************************************)
(* SentinelPay: the ledger transaction and risk engine.                    *)
(*                                                                         *)
(* The model follows the mongoose models (Account, Transaction, FraudCase),*)
(* TransactionService (processTransaction, reverseTransaction),            *)
(* Transaction.createReversal, FraudDetectionService.createFraudCase and   *)
(* the account controller.  Every request is a process that advances from  *)
(* one await of a database operation to the next, so that requests         *)
(* interleave exactly where the node event loop lets them interleave.      *)
(* Account.updateBalances runs inside its own MongoDB transaction: its     *)
(* reads and writes become visible together at commitTransaction, so it is *)
(* one step.  A document saved with { session } is invisible to the other  *)
(* requests until the session commits: it lives in doc[p] until then.      *)
(* Amounts are integers (minor units), scores are hundredths.              *)
(***************************************************************************)
EXTENDS Integers, Sequences, FiniteSets, TLC

\* ---------------------------------------------------------------- bounds
MaxTx == 3
MaxUpdates == 1
MaxScans == 1
\* the transactions submitted in the specification of the fraud cases
MaxFraudTx == 1
\* the ledger calls started in the specification of the ledger
MaxCalls == 3
\* the actions a case may carry when a fraud report on it is accepted
MaxActions == 2
\* the requests the fraud desk serves
MaxAdmin == 2
\* the requests the fraud desk serves in the specification of the notification sink
MaxNotified == 1
\* the closeAccount requests served in the specification of the closure
MaxCloses == 2

\* the request slots: two requests can be in flight at once
Procs == {1, 2}
TxIds == 1..MaxTx
\* the amounts a client can request
Amts == {1, 2}

\* ------------------------------------------------------------- constants
None == "none"
Accts == {"a1", "a2"}
\* FRAUD_ALERT_THRESHOLD default 0.75, in hundredths
FRAUD_ALERT_THRESHOLD == 75
\* risk scores the scoring engine can return (hundredths): at and above the threshold
Scores == {75, 82}
\* credit limits an admin can set
CreditLimits == {0, 1}
HighRiskReason == "High fraud risk detected"

\* accounts, transactions, fraudCases: the three collections;
\* nextTx: the next fresh transaction _id; updates: account updates so far;
\* pc, doc, tid, rid: per request, its position, its unsaved or session-local
\* transaction document, the _id of the transaction it works on and the _id of
\* its reversal; thrown: the error the last step threw to its caller
VARIABLES accounts, transactions, fraudCases, nextTx, updates, pc, doc, tid, rid, thrown

\* check: one client's sequence of _validateSourceAccount calls on an account
\* and the transactions of its day, for the specification of the limits
VARIABLES check

\* analysis: one call of analyzeTransaction: what its collaborators did, the
\* result it returned, what Submit decided with it and the detectionType
\* createFraudCase derived from it
VARIABLES analysis

\* scan: the daily fraud scan: its position, the transactions it found and has
\* not handled yet, the scans run so far
VARIABLES scan

\* ledger: Account.updateBalances await by await: the calls in flight (each
\* with the snapshot of its MongoDB transaction and its uncommitted writes),
\* the version of each account document, the calls started and the calls that
\* hit a write conflict so far, and the accounts as the committed calls make
\* them when applied one after the other
VARIABLES ledger

\* desk: the fraud desk: its clock (Date.now() as the number of the admin
\* request being served) and the last admin request: its handler, the case
\* it named and the status or action type it carried
VARIABLES desk

\* sink: what the notification sink did with the calls of the last request
\* that notifies
VARIABLES sink

\* closure: the closeAccount request in flight: its position (the findById, the
\* countDocuments, the save), the account it read, the requests served so far
VARIABLES closure

\* the variables the ledger core leaves alone
aux == <<check, analysis, scan, ledger, desk, sink, closure>>

\* the variables of the ledger core
core == <<accounts, transactions, fraudCases, nextTx, updates, pc, doc, tid, rid, thrown>>

vars == <<accounts, transactions, fraudCases, nextTx, updates, pc, doc, tid, rid, thrown, aux>>

\* ------------------------------------------------------------ documents
NoDoc == [sourceAccountId |-> None, destinationAccountId |-> None, amount |-> 0,
          currency |-> "USD", transactionType |-> None, status |-> None,
          statusHistory |-> <<>>, fraudScore |-> 0, fraudReviewed |-> FALSE,
          relatedTransactions |-> <<>>]

\* new Account(...) as persisted by createAccount, with the limits of the deployment
NewAccount(type, bal, climit, perTx, daily) ==
  [accountType |-> type, balance |-> bal, availableBalance |-> bal,
   pendingTransactions |-> 0, isActive |-> TRUE, isFrozen |-> FALSE,
   creditLimit |-> climit, perTransaction |-> perTx, daily |-> daily, closedAt |-> 0]

\* accountSchema.balance.validate
BalanceValid(acc) ==
  IF acc.accountType = "credit" THEN acc.balance >= -acc.creditLimit
  ELSE acc.balance >= 0

\* one account's half of the 'completed' branch: balance moves by delta,
\* availableBalance is recomputed
MoveBalance(accts, a, delta) ==
  [accts EXCEPT ![a].balance = @ + delta,
                ![a].availableBalance = (accts[a].balance + delta) - accts[a].pendingTransactions]

\* 'pending' / 'failed' / 'reversed' branches: the reservation moves by delta
MovePending(accts, a, delta) ==
  [accts EXCEPT ![a].pendingTransactions = @ + delta,
                ![a].availableBalance = accts[a].balance - (accts[a].pendingTransactions + delta)]

Present(accts, a) == a # None /\ a \in DOMAIN accts

\* updateBalances with the 'pending' branch debiting the balance as 'completed' does
UpdateBalancesPendingDebits(accts, src, dst, amount, status) ==
  IF status \in {"completed", "pending"} THEN
    LET s1 == IF Present(accts, src) THEN MoveBalance(accts, src, -amount) ELSE accts
        srcOk == Present(accts, src) => BalanceValid(s1[src])
        s2 == IF Present(s1, dst) THEN MoveBalance(s1, dst, amount) ELSE s1
        dstOk == Present(s1, dst) => BalanceValid(s2[dst])
    IN IF srcOk /\ dstOk THEN [ok |-> TRUE, accounts |-> s2]
       ELSE [ok |-> FALSE, accounts |-> accts]
  ELSE IF status \in {"failed", "reversed"} THEN
    [ok |-> TRUE,
     accounts |-> IF Present(accts, src) THEN MovePending(accts, src, -amount) ELSE accts]
  ELSE [ok |-> TRUE, accounts |-> accts]

\* updateBalances with a 'pending' branch that forgets to recompute availableBalance
UpdateBalancesStaleAvailable(accts, src, dst, amount, status) ==
  IF status = "completed" THEN
    LET s1 == IF Present(accts, src) THEN MoveBalance(accts, src, -amount) ELSE accts
        srcOk == Present(accts, src) => BalanceValid(s1[src])
        s2 == IF Present(s1, dst) THEN MoveBalance(s1, dst, amount) ELSE s1
        dstOk == Present(s1, dst) => BalanceValid(s2[dst])
    IN IF srcOk /\ dstOk THEN [ok |-> TRUE, accounts |-> s2]
       ELSE [ok |-> FALSE, accounts |-> accts]
  ELSE IF status = "pending" THEN
    [ok |-> TRUE,
     accounts |-> IF Present(accts, src)
                  THEN [accts EXCEPT ![src].pendingTransactions = @ + amount]
                  ELSE accts]
  ELSE IF status \in {"failed", "reversed"} THEN
    [ok |-> TRUE,
     accounts |-> IF Present(accts, src) THEN MovePending(accts, src, -amount) ELSE accts]
  ELSE [ok |-> TRUE, accounts |-> accts]

\* Account.updateBalances: [ok, accounts]; a failed save (balance validator)
\* aborts the session, nothing of the call is persisted, and the error is thrown
UpdateBalances(accts, src, dst, amount, status) ==
  IF status = "completed" THEN
    LET s1 == IF Present(accts, src) THEN MoveBalance(accts, src, -amount) ELSE accts
        srcOk == Present(accts, src) => BalanceValid(s1[src])
        s2 == IF Present(s1, dst) THEN MoveBalance(s1, dst, amount) ELSE s1
        dstOk == Present(s1, dst) => BalanceValid(s2[dst])
    IN IF srcOk /\ dstOk THEN [ok |-> TRUE, accounts |-> s2]
       ELSE [ok |-> FALSE, accounts |-> accts]
  ELSE IF status = "pending" THEN
    [ok |-> TRUE,
     accounts |-> IF Present(accts, src) THEN MovePending(accts, src, amount) ELSE accts]
  ELSE IF status \in {"failed", "reversed"} THEN
    [ok |-> TRUE,
     accounts |-> IF Present(accts, src) THEN MovePending(accts, src, -amount) ELSE accts]
  ELSE [ok |-> TRUE, accounts |-> accts]

\* transactionSchema.post('save'): the ledger is called with the document's
\* current status; an error is logged and swallowed
PostSaveHook(accts, d) ==
  IF d.status \in {"completed", "pending", "failed", "reversed"}
  THEN UpdateBalances(accts, d.sourceAccountId, d.destinationAccountId, d.amount, d.status).accounts
  ELSE accts

\* a pre-save hook that records nothing
PreSaveHookSilent(d, isNewOrStatusModified) == d

\* transactionSchema.pre('save'): a new document or a modified status appends to the history
PreSaveHook(d, isNewOrStatusModified) ==
  IF isNewOrStatusModified
  THEN [d EXCEPT !.statusHistory = Append(@, [status |-> d.status, reason |-> ""])]
  ELSE d

RECURSIVE SumCompleted(_, _, _)
SumCompleted(txs, a, n) ==
  IF n = 0 THEN 0
  ELSE SumCompleted(txs, a, n - 1) +
       (IF n \in DOMAIN txs /\ txs[n].sourceAccountId = a /\ txs[n].status = "completed"
        THEN txs[n].amount ELSE 0)

\* the aggregate of _validateSourceAccount: completed source-transactions of today
DailyTotal(txs, a) == SumCompleted(txs, a, MaxTx)

\* _validateSourceAccount without the funds check of non-credit accounts
ValidateSourceAccountNoFunds(accts, txs, a, amount) ==
  IF a \notin DOMAIN accts THEN "Source account not found"
  ELSE IF ~accts[a].isActive THEN "Source account is inactive"
  ELSE IF accts[a].isFrozen THEN "Source account is frozen"
  ELSE IF accts[a].accountType = "credit" /\ (accts[a].balance - amount) < -accts[a].creditLimit
       THEN "Transaction exceeds credit limit"
  ELSE IF amount > accts[a].perTransaction
       THEN "Transaction amount exceeds per-transaction limit"
  ELSE IF DailyTotal(txs, a) + amount > accts[a].daily
       THEN "Transaction would exceed daily limit"
  ELSE ""

\* _validateSourceAccount with a daily limit that rejects reaching the limit exactly
ValidateSourceAccountStrictDaily(accts, txs, a, amount) ==
  IF a \notin DOMAIN accts THEN "Source account not found"
  ELSE IF ~accts[a].isActive THEN "Source account is inactive"
  ELSE IF accts[a].isFrozen THEN "Source account is frozen"
  ELSE IF accts[a].accountType # "credit" /\ accts[a].availableBalance < amount
       THEN "Insufficient funds"
  ELSE IF accts[a].accountType = "credit" /\ (accts[a].balance - amount) < -accts[a].creditLimit
       THEN "Transaction exceeds credit limit"
  ELSE IF amount > accts[a].perTransaction
       THEN "Transaction amount exceeds per-transaction limit"
  ELSE IF DailyTotal(txs, a) + amount >= accts[a].daily
       THEN "Transaction would exceed daily limit"
  ELSE ""

\* _validateSourceAccount with the per-transaction limit checked before the funds
ValidateSourceAccountLimitFirst(accts, txs, a, amount) ==
  IF a \notin DOMAIN accts THEN "Source account not found"
  ELSE IF ~accts[a].isActive THEN "Source account is inactive"
  ELSE IF accts[a].isFrozen THEN "Source account is frozen"
  ELSE IF amount > accts[a].perTransaction
       THEN "Transaction amount exceeds per-transaction limit"
  ELSE IF accts[a].accountType # "credit" /\ accts[a].availableBalance < amount
       THEN "Insufficient funds"
  ELSE IF accts[a].accountType = "credit" /\ (accts[a].balance - amount) < -accts[a].creditLimit
       THEN "Transaction exceeds credit limit"
  ELSE IF DailyTotal(txs, a) + amount > accts[a].daily
       THEN "Transaction would exceed daily limit"
  ELSE ""

\* TransactionService._validateSourceAccount: the message of the first failing check, "" if none
ValidateSourceAccount(accts, txs, a, amount) ==
  IF a \notin DOMAIN accts THEN "Source account not found"
  ELSE IF ~accts[a].isActive THEN "Source account is inactive"
  ELSE IF accts[a].isFrozen THEN "Source account is frozen"
  ELSE IF accts[a].accountType # "credit" /\ accts[a].availableBalance < amount
       THEN "Insufficient funds"
  ELSE IF accts[a].accountType = "credit" /\ (accts[a].balance - amount) < -accts[a].creditLimit
       THEN "Transaction exceeds credit limit"
  ELSE IF amount > accts[a].perTransaction
       THEN "Transaction amount exceeds per-transaction limit"
  ELSE IF DailyTotal(txs, a) + amount > accts[a].daily
       THEN "Transaction would exceed daily limit"
  ELSE ""

\* _validateDestinationAccount without the frozen check
ValidateDestinationAccountIgnoresFrozen(accts, a) ==
  IF a \notin DOMAIN accts THEN "Destination account not found"
  ELSE IF ~accts[a].isActive THEN "Destination account is inactive"
  ELSE ""

\* TransactionService._validateDestinationAccount
ValidateDestinationAccount(accts, a) ==
  IF a \notin DOMAIN accts THEN "Destination account not found"
  ELSE IF ~accts[a].isActive THEN "Destination account is inactive"
  ELSE IF accts[a].isFrozen THEN "Destination account is frozen"
  ELSE ""

\* TransactionService._validateTransaction
ValidateTransaction(accts, txs, type, src, dst, amount) ==
  IF type = "transfer" THEN
    IF src = None \/ dst = None
    THEN "Source and destination accounts are required for transfers"
    ELSE IF ValidateSourceAccount(accts, txs, src, amount) # ""
         THEN ValidateSourceAccount(accts, txs, src, amount)
         ELSE ValidateDestinationAccount(accts, dst)
  ELSE IF type = "withdrawal" THEN
    IF src = None THEN "Source account is required for withdrawals"
    ELSE ValidateSourceAccount(accts, txs, src, amount)
  ELSE IF type = "deposit" THEN
    IF dst = None THEN "Destination account is required for deposits"
    ELSE ValidateDestinationAccount(accts, dst)
  ELSE IF type = "payment" THEN
    IF src = None THEN "Source account is required for payments"
    ELSE ValidateSourceAccount(accts, txs, src, amount)
  ELSE "Unsupported transaction type"

\* new Transaction({... status: 'pending' ...}) of processTransaction
NewTransaction(type, src, dst, amount) ==
  [NoDoc EXCEPT !.sourceAccountId = src, !.destinationAccountId = dst, !.amount = amount,
                !.transactionType = type, !.status = "pending"]

\* no _validateSourceAccount call is under study
NoCheck == [pc |-> "idle", account |-> None, transactions |-> <<>>, amount |-> 0, message |-> ""]

\* no analyzeTransaction call is under study
NoAnalysis ==
  [pc |-> "idle", signals |-> <<>>, basicThrows |-> FALSE, ml |-> None, prediction |-> 0,
   cacheThrows |-> FALSE, bodyThrows |-> FALSE, score |-> 0, error |-> FALSE, decision |-> None,
   detectionType |-> None]

\* no scan is running
NoScan == [pc |-> "idle", ids |-> {}, runs |-> 0]

\* the two updateBalances calls that can be in flight
Calls == {1, 2}

\* an updateBalances call that is not running
NoCall == [pc |-> "idle", src |-> None, dst |-> None, amount |-> 0, status |-> None,
          snapshot |-> <<>>, seen |-> <<>>, wrote |-> {}, overlapped |-> FALSE]

\* no updateBalances call is under study
NoLedger == [calls |-> [c \in Calls |-> NoCall], version |-> [a \in Accts |-> 0],
            started |-> 0, conflicts |-> 0, overlaps |-> 0, serial |-> <<>>]

\* no closeAccount request is in flight
NoClosure == [pc |-> "idle", account |-> None, served |-> 0]

\* the fraud desk before its first request
NoDesk == [clock |-> 1, request |-> None, case |-> 0, arg |-> None]

\* ------------------------------------------------------------------ Init
Init ==
  /\ check = NoCheck
  /\ analysis = NoAnalysis
  /\ scan = NoScan
  /\ ledger = NoLedger
  /\ desk = NoDesk
  /\ sink = None
  /\ closure = NoClosure
  /\ \E type \in {"checking", "credit"} :
       accounts = [a \in Accts |->
                     IF a = "a2" THEN NewAccount("savings", 0, 0, 2, 3)
                     ELSE IF type = "credit" THEN NewAccount("credit", 0, 1, 2, 3)
                     ELSE NewAccount("checking", 3, 0, 2, 3)]
  /\ transactions = <<>>
  /\ fraudCases = <<>>
  /\ nextTx = 1
  /\ updates = 0
  /\ pc = [p \in Procs |-> "idle"]
  /\ doc = [p \in Procs |-> NoDoc]
  /\ tid = [p \in Procs |-> 0]
  /\ rid = [p \in Procs |-> 0]
  /\ thrown = None

\* ------------------------------------------------------- processTransaction
\* the request shapes a client can submit: the four types of the service and
\* one it does not support, with or without the accounts their type requires
\* (a1 is named as source only, a2 as destination only)
Requests ==
  {r \in [transactionType : {"transfer", "withdrawal", "deposit", "payment", "refund"},
          sourceAccountId : {"a1", None},
          destinationAccountId : {"a2", None},
          amount : Amts] :
     /\ r.transactionType = "deposit" => r.sourceAccountId = None
     /\ r.transactionType \in {"withdrawal", "payment"} => r.destinationAccountId = None}

\* request slots are interchangeable: a request takes the first free one
FirstFree(p) == pc[p] = "idle" /\ \A q \in Procs : q < p => pc[q] # "idle"

\* the notification sink answers a call or fails it
Sinks == {"ok", "fails"}

\* a notification method that lets the error of the sink through
NotificationErrorThrown(outcome) == IF outcome = "fails" THEN "notification" ELSE None

\* NotificationService.send*: each method wraps its whole body in try/catch
\* and logs the error: nothing is thrown to the caller
NotificationError(outcome) == None

\* the request is answered: its slot is free again
Done(p) ==
  /\ pc' = [pc EXCEPT ![p] = "idle"]
  /\ doc' = [doc EXCEPT ![p] = NoDoc]
  /\ tid' = [tid EXCEPT ![p] = 0]
  /\ rid' = [rid EXCEPT ![p] = 0]

\* processTransaction lines 24-52, for one of the given requests:
\* _validateTransaction, then new Transaction(...); a validation error is
\* thrown before anything is written (lines 125-134)
SubmitValidateOf(p, requests) ==
  /\ FirstFree(p)
  /\ \/ /\ ~\A r \in requests :
               ValidateTransaction(accounts, transactions, r.transactionType,
                                   r.sourceAccountId, r.destinationAccountId, r.amount) = ""
        /\ thrown' = "validation"
        /\ UNCHANGED <<accounts, transactions, fraudCases, nextTx, updates, pc, doc, tid, rid>>
     \/ /\ nextTx <= MaxTx
        /\ \E r \in requests :
             /\ ValidateTransaction(accounts, transactions, r.transactionType,
                                    r.sourceAccountId, r.destinationAccountId, r.amount) = ""
             /\ doc' = [doc EXCEPT ![p] = NewTransaction(r.transactionType, r.sourceAccountId,
                                                         r.destinationAccountId, r.amount)]
        /\ tid' = [tid EXCEPT ![p] = nextTx]
        /\ nextTx' = nextTx + 1
        /\ pc' = [pc EXCEPT ![p] = "s_save"]
        /\ thrown' = None
        /\ UNCHANGED <<accounts, transactions, fraudCases, rid, updates>>

SubmitValidate(p) == SubmitValidateOf(p, Requests)

\* lines 54-70: transaction.save({ session }) of the new pending document
\* (pre-save seeds the history, post-save calls the ledger with 'pending'),
\* then analyzeTransaction returns a score, fraudScore is set and the
\* threshold decides between the hold and the settlement
SubmitSavePending(p) ==
  /\ pc[p] = "s_save"
  /\ \E score \in Scores :
       LET d == [PreSaveHook(doc[p], TRUE) EXCEPT !.fraudScore = score]
       IN /\ accounts' = PostSaveHook(accounts, d)
          /\ IF score > FRAUD_ALERT_THRESHOLD
             THEN /\ doc' = [doc EXCEPT ![p] =
                               [d EXCEPT !.statusHistory =
                                  Append(@, [status |-> "pending", reason |-> HighRiskReason])]]
                  /\ pc' = [pc EXCEPT ![p] = "s_case"]
             ELSE /\ doc' = [doc EXCEPT ![p] = d]
                  /\ pc' = [pc EXCEPT ![p] = "s_process"]
  /\ thrown' = None
  /\ UNCHANGED <<transactions, fraudCases, nextTx, tid, rid, updates>>

\* a fraud case that keeps the score on the 0-1 scale of the scoring engine
NewFraudCaseUnscaled(accts, t, d) ==
  [transactionId |-> t,
   accountId |-> IF d.sourceAccountId # None
                 THEN (IF d.sourceAccountId \in DOMAIN accts THEN d.sourceAccountId ELSE None)
                 ELSE (IF d.destinationAccountId \in DOMAIN accts
                       THEN d.destinationAccountId ELSE None),
   fraudScore |-> d.fraudScore,
   status |-> "open", assignedTo |-> None, resolutionDate |-> 0, actions |-> <<>>,
   customerNotified |-> FALSE]

\* createFraudCase lines 140-174: new FraudCase({...}); the account is the
\* source account, else the destination account; fraudScore is score * 100
\* (a score of 0.82, 82 hundredths, becomes 82.00, 8200 hundredths); status
\* defaults to open, customerNotified to false, the action log is empty and
\* resolutionDate is not set (0: the clock starts at 1)
NewFraudCase(accts, t, d) ==
  [transactionId |-> t,
   accountId |-> IF d.sourceAccountId # None
                 THEN (IF d.sourceAccountId \in DOMAIN accts THEN d.sourceAccountId ELSE None)
                 ELSE (IF d.destinationAccountId \in DOMAIN accts
                       THEN d.destinationAccountId ELSE None),
   fraudScore |-> d.fraudScore * 100,
   status |-> "open", assignedTo |-> None, resolutionDate |-> 0, actions |-> <<>>,
   customerNotified |-> FALSE]

\* FraudDetectionService.createFraudCase (line 72): the case is saved, the
\* transaction is marked fraudReviewed and saved, which runs the post-save hook
SubmitCreateFraudCase(p) ==
  /\ pc[p] = "s_case"
  /\ LET d == PreSaveHook([doc[p] EXCEPT !.fraudReviewed = TRUE], FALSE)
     IN /\ fraudCases' = Append(fraudCases, NewFraudCase(accounts, tid[p], doc[p]))
        /\ doc' = [doc EXCEPT ![p] = d]
        /\ accounts' = PostSaveHook(accounts, d)
  /\ pc' = [pc EXCEPT ![p] = "s_hold"]
  /\ thrown' = None
  /\ UNCHANGED <<transactions, nextTx, tid, rid, updates>>

\* lines 74-86: the held transaction is saved again (post-save hook), the
\* session commits and the pending record becomes visible; status 'pending' is returned
\* (line 78: sendFraudAlert after the commit; an error of it would reach the
\* catch of lines 125-134 and the caller, with the hold committed)
SubmitHoldNotifying(p, outcome) ==
  /\ pc[p] = "s_hold"
  /\ LET d == PreSaveHook(doc[p], FALSE)
     IN /\ accounts' = PostSaveHook(accounts, d)
        /\ transactions' = transactions @@ (tid[p] :> d)
  /\ Done(p)
  /\ thrown' = NotificationError(outcome)
  /\ UNCHANGED <<fraudCases, nextTx, updates>>

SubmitHold(p) == \E outcome \in Sinks : SubmitHoldNotifying(p, outcome)

\* the arguments of _processTransfer/_processWithdrawal/_processDeposit/_processPayment
ProcessArgs(d) ==
  IF d.transactionType = "withdrawal" THEN [src |-> d.sourceAccountId, dst |-> None]
  ELSE IF d.transactionType = "deposit" THEN [src |-> None, dst |-> d.destinationAccountId]
  ELSE [src |-> d.sourceAccountId, dst |-> d.destinationAccountId]

\* lines 90-107: the explicit ledger call with 'completed'; an error aborts the
\* session, the pending record is discarded and the error is returned (lines 125-134)
SubmitProcess(p) ==
  /\ pc[p] = "s_process"
  /\ LET args == ProcessArgs(doc[p])
         r == UpdateBalances(accounts, args.src, args.dst, doc[p].amount, "completed")
     IN IF r.ok
        THEN /\ accounts' = r.accounts
             /\ pc' = [pc EXCEPT ![p] = "s_complete"]
             /\ thrown' = None
             /\ UNCHANGED <<doc, tid, rid>>
        ELSE /\ accounts' = accounts
             /\ Done(p)
             /\ thrown' = "processing"
  /\ UNCHANGED <<transactions, fraudCases, nextTx, updates>>

\* lines 110-123: status = 'completed', save (pre-save appends the history
\* entry, post-save calls the ledger with 'completed'), commit; status
\* 'completed' is returned
\* (line 117: sendTransactionNotification after the commit)
SubmitCompleteNotifying(p, outcome) ==
  /\ pc[p] = "s_complete"
  /\ LET d == PreSaveHook([doc[p] EXCEPT !.status = "completed"], TRUE)
     IN /\ accounts' = PostSaveHook(accounts, d)
        /\ transactions' = transactions @@ (tid[p] :> d)
  /\ Done(p)
  /\ thrown' = NotificationError(outcome)
  /\ UNCHANGED <<fraudCases, nextTx, updates>>

SubmitComplete(p) == \E outcome \in Sinks : SubmitCompleteNotifying(p, outcome)

\* ------------------------------------------------------------ createReversal
\* the schema's required rules of sourceAccountId and destinationAccountId, and amount > 0
SchemaValid(d) ==
  /\ d.transactionType # "deposit" => d.sourceAccountId # None
  /\ d.transactionType = "transfer" => d.destinationAccountId # None
  /\ d.amount > 0

\* createReversal without the status check
ReversalErrorAnyStatus(txs, t) ==
  IF t \notin DOMAIN txs THEN "Original transaction not found" ELSE ""

\* createReversal lines 163-169: "" when the original may be reversed
ReversalError(txs, t) ==
  IF t \notin DOMAIN txs THEN "Original transaction not found"
  ELSE IF txs[t].status # "completed" THEN "Only completed transactions can be reversed"
  ELSE ""

\* a reversal document that copies source and destination instead of swapping them
NewReversalUnswapped(orig, origId) ==
  [NoDoc EXCEPT !.sourceAccountId = orig.sourceAccountId,
                !.destinationAccountId = orig.destinationAccountId,
                !.amount = orig.amount,
                !.currency = orig.currency,
                !.transactionType = "refund",
                !.status = "pending",
                !.relatedTransactions = <<origId>>]

\* createReversal lines 171-180: the reversal document (status defaults to pending)
NewReversal(orig, origId) ==
  [NoDoc EXCEPT !.sourceAccountId = orig.destinationAccountId,
                !.destinationAccountId = orig.sourceAccountId,
                !.amount = orig.amount,
                !.currency = orig.currency,
                !.transactionType = "refund",
                !.status = "pending",
                !.relatedTransactions = <<origId>>]

\* reverseTransaction (controller and service) down to createReversal line 180:
\* the original is read and checked (an error is thrown before anything is
\* written), the reversal document gets its _id
ReverseRead(p) ==
  /\ FirstFree(p)
  /\ \/ /\ ~\A t \in TxIds : ReversalError(transactions, t) = ""
        /\ thrown' = "reversal"
        /\ UNCHANGED <<accounts, transactions, fraudCases, nextTx, updates, pc, doc, tid, rid>>
     \/ /\ nextTx <= MaxTx
        /\ \E t \in TxIds :
             /\ ReversalError(transactions, t) = ""
             /\ tid' = [tid EXCEPT ![p] = t]
        /\ rid' = [rid EXCEPT ![p] = nextTx]
        /\ nextTx' = nextTx + 1
        /\ pc' = [pc EXCEPT ![p] = "r_orig"]
        /\ thrown' = None
        /\ UNCHANGED <<accounts, transactions, fraudCases, doc, updates>>

\* lines 182-186: originalTransaction.save() writes the modified paths (status,
\* relatedTransactions, the history entry of pre-save); post-save calls the
\* ledger with 'reversed'
ReverseSaveOriginal(p) ==
  /\ pc[p] = "r_orig"
  /\ LET t == tid[p]
         saved == [transactions[t] EXCEPT !.status = "reversed",
                                          !.relatedTransactions = Append(@, rid[p]),
                                          !.statusHistory =
                                             Append(@, [status |-> "reversed", reason |-> ""])]
     IN /\ transactions' = [transactions EXCEPT ![t] = saved]
        /\ accounts' = PostSaveHook(accounts, saved)
  /\ pc' = [pc EXCEPT ![p] = "r_rev"]
  /\ thrown' = None
  /\ UNCHANGED <<fraudCases, nextTx, doc, tid, rid, updates>>

\* line 187: reversalTransaction.save(): schema validation, insert, post-save
\* hook; a validation error is thrown to the caller
\* (reverseTransaction line 156: sendReversalNotification of the saved refund)
ReverseSaveReversalNotifying(p, outcome) ==
  /\ pc[p] = "r_rev"
  /\ LET d == PreSaveHook(NewReversal(transactions[tid[p]], tid[p]), TRUE)
     IN IF SchemaValid(d)
        THEN /\ transactions' = transactions @@ (rid[p] :> d)
             /\ accounts' = PostSaveHook(accounts, d)
             /\ thrown' = NotificationError(outcome)
        ELSE /\ thrown' = "save"
             /\ UNCHANGED <<accounts, transactions>>
  /\ Done(p)
  /\ UNCHANGED <<fraudCases, nextTx, updates>>

ReverseSaveReversal(p) == \E outcome \in Sinks : ReverseSaveReversalNotifying(p, outcome)

\* ------------------------------------------------------- account controller
\* updateAccount: findByIdAndUpdate of the allowed fields (isActive for the
\* owner; isFrozen and creditLimit for an admin); update validators run only
\* on the paths of the update, none of which has a validator
UpdateAccount(a) ==
  /\ updates < MaxUpdates
  /\ updates' = updates + 1
  /\ \/ \E b \in BOOLEAN : accounts' = [accounts EXCEPT ![a].isActive = b]
     \/ \E b \in BOOLEAN : accounts' = [accounts EXCEPT ![a].isFrozen = b]
     \/ \E l \in CreditLimits : accounts' = [accounts EXCEPT ![a].creditLimit = l]
  /\ accounts' # accounts
  /\ thrown' = None
  /\ UNCHANGED <<transactions, fraudCases, nextTx, pc, doc, tid, rid>>

\* closeAccount answered before any other request runs: zero balance and no
\* pending transaction of the account; closedAt is Date.now() (0: not set, 1: set)
CloseAccount(a) ==
  /\ updates < MaxUpdates
  /\ updates' = updates + 1
  /\ accounts[a].balance = 0
  /\ ~\E t \in DOMAIN transactions :
        /\ transactions[t].status = "pending"
        /\ a \in {transactions[t].sourceAccountId, transactions[t].destinationAccountId}
  /\ accounts' = [accounts EXCEPT ![a].isActive = FALSE, ![a].closedAt = 1]
  /\ thrown' = None
  /\ UNCHANGED <<transactions, fraudCases, nextTx, pc, doc, tid, rid>>

\* the error reaches the caller (the controller answers with it) before the
\* event loop runs another handler
Respond ==
  /\ thrown # None
  /\ thrown' = None
  /\ UNCHANGED <<accounts, transactions, fraudCases, nextTx, updates, pc, doc, tid, rid, aux>>

\* the ledger core: Submit and Reverse requests
Next ==
  \/ /\ thrown = None
     /\ UNCHANGED aux
     /\ \E p \in Procs :
          \/ SubmitValidate(p)
          \/ SubmitSavePending(p)
          \/ SubmitCreateFraudCase(p)
          \/ SubmitHold(p)
          \/ SubmitProcess(p)
          \/ SubmitComplete(p)
          \/ ReverseRead(p)
          \/ ReverseSaveOriginal(p)
          \/ ReverseSaveReversal(p)
  \/ Respond

Spec == Init /\ [][Next]_vars

\* the ledger core together with the account operations
NextAccounts ==
  \/ Next
  \/ /\ thrown = None
     /\ UNCHANGED aux
     /\ \E a \in Accts :
          \/ UpdateAccount(a)
          \/ CloseAccount(a)

SpecAccounts == Init /\ [][NextAccounts]_vars

\* one client that submits one request after the other, while the account
\* operations run concurrently with it
NextClient ==
  \/ /\ thrown = None
     /\ UNCHANGED aux
     /\ \/ SubmitValidate(1)
        \/ SubmitSavePending(1)
        \/ SubmitCreateFraudCase(1)
        \/ SubmitHold(1)
        \/ SubmitProcess(1)
        \/ SubmitComplete(1)
        \/ \E a \in Accts :
             \/ UpdateAccount(a)
             \/ CloseAccount(a)
  \/ Respond

SpecClient == Init /\ [][NextClient]_vars

\* a credit account with room for more than one debit: creditLimit 5, balance 0
InitCredit ==
  /\ accounts = [a \in Accts |->
                   IF a = "a1" THEN NewAccount("credit", 0, 5, 2, 3)
                   ELSE NewAccount("savings", 0, 0, 2, 3)]
  /\ transactions = <<>>
  /\ fraudCases = <<>>
  /\ nextTx = 1
  /\ updates = 0
  /\ pc = [p \in Procs |-> "idle"]
  /\ doc = [p \in Procs |-> NoDoc]
  /\ tid = [p \in Procs |-> 0]
  /\ rid = [p \in Procs |-> 0]
  /\ thrown = None
  /\ check = NoCheck
  /\ analysis = NoAnalysis
  /\ scan = NoScan
  /\ ledger = NoLedger
  /\ desk = NoDesk
  /\ sink = None
  /\ closure = NoClosure

\* one client submitting against the credit account
SpecCredit == InitCredit /\ [][NextClient]_vars

\* ------------------------------------------------------ the limits of a day
\* the amounts the client of the daily-limit scenario asks to withdraw
LimitAmounts == {90, 100, 150, 400, 500, 600}

\* an account with perTransaction 500 and daily 1000 and ample funds, no transaction yet
InitLimits ==
  /\ accounts = [a \in Accts |->
                   IF a = "a1" THEN NewAccount("checking", 5000, 0, 500, 1000)
                   ELSE NewAccount("savings", 0, 0, 500, 1000)]
  /\ transactions = <<>>
  /\ fraudCases = <<>>
  /\ nextTx = 1
  /\ updates = 0
  /\ pc = [p \in Procs |-> "idle"]
  /\ doc = [p \in Procs |-> NoDoc]
  /\ tid = [p \in Procs |-> 0]
  /\ rid = [p \in Procs |-> 0]
  /\ thrown = None
  /\ check = [NoCheck EXCEPT !.account = "a1"]
  /\ analysis = NoAnalysis
  /\ scan = NoScan
  /\ ledger = NoLedger
  /\ desk = NoDesk
  /\ sink = None
  /\ closure = NoClosure

\* _validateSourceAccount (lines 289-347) is called for a withdrawal of the
\* account, with the transactions of the day so far
CheckSource ==
  /\ check.pc = "idle"
  /\ Len(check.transactions) < MaxTx
  /\ \E amount \in LimitAmounts :
       check' = [check EXCEPT !.pc = "checked", !.amount = amount,
                              !.message = ValidateSourceAccount(accounts, check.transactions,
                                                                check.account, amount)]

\* the request passed: its transaction is recorded, completed (settled) or
\* pending (held), before the client's next request
CheckPassed ==
  /\ check.pc = "checked"
  /\ check.message = ""
  /\ \E status \in {"completed", "pending"} :
       check' = [check EXCEPT
                   !.pc = "idle", !.amount = 0,
                   !.transactions =
                      Append(@, [NewTransaction("withdrawal", check.account, None, check.amount)
                                   EXCEPT !.status = status])]

\* the request was rejected with the message: nothing is recorded
CheckRejected ==
  /\ check.pc = "checked"
  /\ check.message # ""
  /\ check' = [check EXCEPT !.pc = "idle", !.amount = 0, !.message = ""]

\* the source accounts of the scenario of the order of the checks: a checking
\* account with 100 or 5000, or a credit account at 0 with a credit limit of
\* 100; active or not, frozen or not, perTransaction 100 or 500, daily 100 or
\* 1000; the client names that account or one that does not exist
InitOrder ==
  /\ \E type \in {"checking", "credit"}, bal \in {100, 5000}, active \in BOOLEAN,
        frozen \in BOOLEAN, perTx \in {100, 500}, daily \in {100, 1000},
        named \in {"a1", "a3"} :
       /\ type = "credit" => bal = 100
       /\ named = "a3" => (type = "checking" /\ bal = 5000 /\ active /\ ~frozen
                             /\ perTx = 500 /\ daily = 1000)
       /\ accounts = [a \in Accts |->
                        IF a = "a2" THEN NewAccount("savings", 0, 0, 500, 1000)
                        ELSE [(IF type = "credit" THEN NewAccount("credit", 0, bal, perTx, daily)
                               ELSE NewAccount("checking", bal, 0, perTx, daily))
                                EXCEPT !.isActive = active, !.isFrozen = frozen]]
       /\ check = [NoCheck EXCEPT !.account = named]
  /\ transactions = <<>>
  /\ fraudCases = <<>>
  /\ nextTx = 1
  /\ updates = 0
  /\ pc = [p \in Procs |-> "idle"]
  /\ doc = [p \in Procs |-> NoDoc]
  /\ tid = [p \in Procs |-> 0]
  /\ rid = [p \in Procs |-> 0]
  /\ thrown = None
  /\ analysis = NoAnalysis
  /\ scan = NoScan
  /\ ledger = NoLedger
  /\ desk = NoDesk
  /\ sink = None
  /\ closure = NoClosure

NextLimits ==
  \/ CheckSource /\ UNCHANGED <<core, analysis, scan, ledger, desk, sink, closure>>
  \/ CheckPassed /\ UNCHANGED <<core, analysis, scan, ledger, desk, sink, closure>>
  \/ CheckRejected /\ UNCHANGED <<core, analysis, scan, ledger, desk, sink, closure>>

SpecLimits == InitLimits /\ [][NextLimits]_vars

\* the same client against each of the source accounts of InitOrder
SpecOrder == InitOrder /\ [][NextLimits]_vars

\* ------------------------------------------------- fraud reports and scan
\* the fraud cases that reference transaction t
CasesOf(t) == {i \in 1..Len(fraudCases) : fraudCases[i].transactionId = t}

\* the first element of a non-empty set of numbers
First(S) == CHOOSE x \in S : \A y \in S : x <= y

\* reportFraud lines 259-287: the transaction is read, then FraudCase.findOne
\* looks for a case of the transaction
ReportRead(p) ==
  /\ FirstFree(p)
  /\ \E t \in DOMAIN transactions :
       /\ \A i \in CasesOf(t) : Len(fraudCases[i].actions) < MaxActions
       /\ tid' = [tid EXCEPT ![p] = t]
       /\ doc' = [doc EXCEPT ![p] = transactions[t]]
       /\ pc' = [pc EXCEPT ![p] = IF CasesOf(t) # {} THEN "f_update" ELSE "f_create"]
  /\ thrown' = None
  /\ UNCHANGED <<accounts, transactions, fraudCases, nextTx, updates, rid, aux>>

\* lines 289-309: the case that was found is set to investigating, a
\* customer-contact action is pushed and the case is saved
ReportUpdateCase(p) ==
  /\ pc[p] = "f_update"
  /\ fraudCases' = [fraudCases EXCEPT
                      ![First(CasesOf(tid[p]))].status = "investigating",
                      ![First(CasesOf(tid[p]))].actions = Append(@, "customer-contact")]
  /\ Done(p)
  /\ thrown' = None
  /\ UNCHANGED <<accounts, transactions, nextTx, updates, aux>>

\* lines 310-342: no case was found: a new open case with fraudScore 90 is saved
ReportCreateCase(p) ==
  /\ pc[p] = "f_create"
  /\ fraudCases' = Append(fraudCases,
                          [NewFraudCase(accounts, tid[p], doc[p]) EXCEPT !.fraudScore = 9000])
  /\ pc' = [pc EXCEPT ![p] = "f_tx"]
  /\ thrown' = None
  /\ UNCHANGED <<accounts, transactions, nextTx, updates, doc, tid, rid, aux>>

\* lines 344-347: fraudScore = 90 and fraudReviewed = true are saved on the
\* transaction; the post-save hook calls the ledger with the status that was read
ReportSaveTransaction(p) ==
  /\ pc[p] = "f_tx"
  /\ transactions' = [transactions EXCEPT ![tid[p]].fraudScore = 9000,
                                          ![tid[p]].fraudReviewed = TRUE]
  /\ accounts' = PostSaveHook(accounts, doc[p])
  /\ Done(p)
  /\ thrown' = None
  /\ UNCHANGED <<fraudCases, nextTx, updates, aux>>

\* the scan moves on to the next transaction it found, or ends
ScanAfter(t) ==
  [scan EXCEPT !.ids = scan.ids \ {t},
               !.pc = IF scan.ids \ {t} = {} THEN "idle" ELSE "score"]

\* runDailyScan lines 65-72: the transactions that are not fraudReviewed are found
ScanFind ==
  /\ scan.pc = "idle"
  /\ scan.runs < MaxScans
  /\ LET found == {t \in DOMAIN transactions : ~transactions[t].fraudReviewed}
     IN scan' = [pc |-> IF found = {} THEN "idle" ELSE "score", ids |-> found,
                 runs |-> scan.runs + 1]
  /\ UNCHANGED <<core, check, analysis, ledger, desk, sink, closure>>

\* lines 77-82: the next transaction is scored and saved with its fraudScore
\* (post-save hook with the status that was found); a score above the
\* threshold is high risk
ScanScore ==
  /\ scan.pc = "score"
  /\ LET t == First(scan.ids)
     IN \E score \in Scores :
          /\ transactions' = [transactions EXCEPT ![t].fraudScore = score]
          /\ accounts' = PostSaveHook(accounts, transactions[t])
          /\ scan' = IF score > FRAUD_ALERT_THRESHOLD
                     THEN [scan EXCEPT !.pc = "case"]
                     ELSE ScanAfter(t)
  /\ UNCHANGED <<fraudCases, nextTx, updates, pc, doc, tid, rid, thrown, check, analysis, ledger, desk, sink, closure>>

\* lines 85-92, createFraudCase line 176: the case of the high-risk transaction is saved
ScanCreateFraudCase ==
  /\ scan.pc = "case"
  /\ LET t == First(scan.ids)
     IN fraudCases' = Append(fraudCases, NewFraudCase(accounts, t, transactions[t]))
  /\ scan' = [scan EXCEPT !.pc = "mark"]
  /\ UNCHANGED <<accounts, transactions, nextTx, updates, pc, doc, tid, rid, thrown,
                 check, analysis, ledger, desk, sink, closure>>

\* createFraudCase lines 179-180: fraudReviewed = true is saved (post-save hook)
ScanMarkReviewed ==
  /\ scan.pc = "mark"
  /\ LET t == First(scan.ids)
     IN /\ transactions' = [transactions EXCEPT ![t].fraudReviewed = TRUE]
        /\ accounts' = PostSaveHook(accounts, transactions[t])
        /\ scan' = ScanAfter(t)
  /\ UNCHANGED <<fraudCases, nextTx, updates, pc, doc, tid, rid, thrown, check, analysis, ledger, desk, sink, closure>>

\* Submit, fraud reports and the daily scan
NextFraud ==
  \/ /\ thrown = None
     /\ \/ /\ UNCHANGED aux
           /\ \E p \in Procs :
                \/ nextTx <= MaxFraudTx /\ SubmitValidate(p)
                \/ SubmitSavePending(p)
                \/ SubmitCreateFraudCase(p)
                \/ SubmitHold(p)
                \/ SubmitProcess(p)
                \/ SubmitComplete(p)
                \/ ReportRead(p)
                \/ ReportUpdateCase(p)
                \/ ReportCreateCase(p)
                \/ ReportSaveTransaction(p)
        \/ ScanFind
        \/ ScanScore
        \/ ScanCreateFraudCase
        \/ ScanMarkReviewed
  \/ Respond

SpecFraud == Init /\ [][NextFraud]_vars

\* ------------------------------------------- updateBalances await by await
\* the arguments updateBalances is called with: a1 is debited or reserved, a2 credited
LedgerArgs ==
  {r \in [src : {"a1", None}, dst : {"a2", None}, amount : Amts,
          status : {"completed", "pending", "reversed"}] :
     /\ r.src # None \/ r.dst # None
     /\ r.status # "completed" => r.src # None /\ r.dst = None}

\* the accounts as the ledger core opens them, no call started
InitLedger ==
  /\ \E type \in {"checking", "credit"} :
       /\ accounts = [a \in Accts |->
                        IF a = "a2" THEN NewAccount("savings", 0, 0, 2, 3)
                        ELSE IF type = "credit" THEN NewAccount("credit", 0, 1, 2, 3)
                        ELSE NewAccount("checking", 3, 0, 2, 3)]
       /\ ledger = [NoLedger EXCEPT !.serial = accounts]
  /\ desk = NoDesk
  /\ sink = None
  /\ closure = NoClosure
  /\ transactions = <<>>
  /\ fraudCases = <<>>
  /\ nextTx = 1
  /\ updates = 0
  /\ pc = [p \in Procs |-> "idle"]
  /\ doc = [p \in Procs |-> NoDoc]
  /\ tid = [p \in Procs |-> 0]
  /\ rid = [p \in Procs |-> 0]
  /\ thrown = None
  /\ check = NoCheck
  /\ analysis = NoAnalysis
  /\ scan = NoScan

\* a ledger in which no write ever conflicts
WriteConflictNever(c, a) == FALSE

\* save({ session }) inside the MongoDB transaction started at lines 151-152:
\* the write conflicts when the document was committed by another transaction
\* after this one's snapshot, or carries an uncommitted write of another one
WriteConflict(c, a) ==
  \/ ledger.version[a] # ledger.calls[c].seen[a]
  \/ \E d \in Calls \ {c} : a \in ledger.calls[d].wrote

\* the two calls name a common account
Shares(r, call) == ({r.src, r.dst} \cap {call.src, call.dst}) \ {None} # {}

\* lines 145-152: the call is entered and its session and transaction start;
\* a call already in flight on a common account overlaps with it
LedgerStart(c) ==
  /\ ledger.calls[c].pc = "idle"
  /\ \A d \in Calls : d < c => ledger.calls[d].pc # "idle"
  /\ ledger.started < MaxCalls
  /\ \E r \in LedgerArgs :
       LET meets(d) == d # c /\ ledger.calls[d].pc # "idle" /\ Shares(r, ledger.calls[d])
       IN ledger' = [ledger EXCEPT
                       !.started = @ + 1,
                       !.calls = [d \in Calls |->
                                    IF d = c
                                    THEN [NoCall EXCEPT !.pc = "begin", !.src = r.src,
                                                        !.dst = r.dst, !.amount = r.amount,
                                                        !.status = r.status,
                                                        !.overlapped = \E e \in Calls : meets(e)]
                                    ELSE IF meets(d) THEN [@[d] EXCEPT !.overlapped = TRUE]
                                    ELSE @[d]]]
  /\ UNCHANGED <<core, check, analysis, scan, desk, sink, closure>>

\* lines 157, 177, 186: the first findById in the session fixes the snapshot
\* the transaction reads from (the findById of line 167 reads the same one)
LedgerFind(c) ==
  LET call == ledger.calls[c]
  IN /\ call.pc = "begin"
     /\ ledger' = [ledger EXCEPT
                     !.calls[c].snapshot = accounts,
                     !.calls[c].seen = ledger.version,
                     !.calls[c].pc = IF call.src # None THEN "src" ELSE "dst"]
     /\ UNCHANGED <<core, check, analysis, scan, desk, sink, closure>>

\* lines 158-162, 178-181, 187-190: the source document is changed and saved
\* in the session: the balance validator runs when balance is modified, then
\* the write is sent; either error aborts the transaction (lines 196-198)
LedgerSaveSource(c) ==
  LET call == ledger.calls[c]
      a == call.src
      new == IF call.status = "completed" THEN MoveBalance(call.snapshot, a, -call.amount)
             ELSE IF call.status = "pending" THEN MovePending(call.snapshot, a, call.amount)
             ELSE MovePending(call.snapshot, a, -call.amount)
  IN /\ call.pc = "src"
     /\ IF call.status = "completed" /\ ~BalanceValid(new[a])
        THEN ledger' = [ledger EXCEPT !.calls[c] = NoCall]
        ELSE IF WriteConflict(c, a)
        THEN ledger' = [ledger EXCEPT !.calls[c] = NoCall, !.conflicts = @ + 1]
        ELSE ledger' = [ledger EXCEPT
                          !.calls[c].snapshot = new,
                          !.calls[c].wrote = @ \cup {a},
                          !.calls[c].pc = IF call.status = "completed" /\ call.dst # None
                                          THEN "dst" ELSE "commit"]
     /\ UNCHANGED <<core, check, analysis, scan, desk, sink, closure>>

\* lines 168-172: the destination document is credited and saved in the session
LedgerSaveDestination(c) ==
  LET call == ledger.calls[c]
      a == call.dst
      new == MoveBalance(call.snapshot, a, call.amount)
  IN /\ call.pc = "dst"
     /\ IF ~BalanceValid(new[a])
        THEN ledger' = [ledger EXCEPT !.calls[c] = NoCall]
        ELSE IF WriteConflict(c, a)
        THEN ledger' = [ledger EXCEPT !.calls[c] = NoCall, !.conflicts = @ + 1]
        ELSE ledger' = [ledger EXCEPT
                          !.calls[c].snapshot = new,
                          !.calls[c].wrote = @ \cup {a},
                          !.calls[c].pc = "commit"]
     /\ UNCHANGED <<core, check, analysis, scan, desk, sink, closure>>

\* line 195: commitTransaction makes the modified paths of the saved documents visible
LedgerCommit(c) ==
  LET call == ledger.calls[c]
      saved(a) == IF call.status = "completed"
                  THEN [accounts[a] EXCEPT !.balance = call.snapshot[a].balance,
                                           !.availableBalance = call.snapshot[a].availableBalance]
                  ELSE [accounts[a] EXCEPT
                          !.pendingTransactions = call.snapshot[a].pendingTransactions,
                          !.availableBalance = call.snapshot[a].availableBalance]
  IN /\ call.pc = "commit"
     /\ accounts' = [a \in Accts |-> IF a \in call.wrote THEN saved(a) ELSE accounts[a]]
     /\ ledger' = [ledger EXCEPT
                     !.calls[c] = NoCall,
                     !.overlaps = IF call.overlapped THEN @ + 1 ELSE @,
                     !.version = [a \in Accts |-> IF a \in call.wrote THEN @[a] + 1 ELSE @[a]],
                     !.serial = UpdateBalances(@, call.src, call.dst, call.amount,
                                               call.status).accounts]
     /\ UNCHANGED <<transactions, fraudCases, nextTx, updates, pc, doc, tid, rid, thrown,
                    check, analysis, scan, desk, sink, closure>>

NextLedger ==
  \E c \in Calls :
    \/ LedgerStart(c)
    \/ LedgerFind(c)
    \/ LedgerSaveSource(c)
    \/ LedgerSaveDestination(c)
    \/ LedgerCommit(c)

SpecLedger == InitLedger /\ [][NextLedger]_vars

\* ------------------------------------------------------------- the scoring
\* scores are in ten-thousandths here: the weights 0.4 and 0.6 are 40 and 60
\* and multiply scores in hundredths
Collectors == <<"unusualAmount", "locationChange", "unusualTime", "multipleFailures",
                "suspiciousPattern">>

\* what a signal collector, the model or the cache can do in one call
Outcomes == {"yes", "no", "throws"}
\* the model: detection disabled, a prediction, an error inside tfModel.predict
\* ("fails", caught there), an error outside it in _getMLPrediction ("throws")
MlOutcomes == {"disabled", "ok", "fails", "throws"}
Predictions == {0, 50, 100}

\* _checkBasicFraudIndicators lines 208-244: the weight of each collector (hundredths)
Weight(c) ==
  IF c = "unusualAmount" THEN 30
  ELSE IF c = "locationChange" THEN 20
  ELSE IF c = "unusualTime" THEN 15
  ELSE IF c = "multipleFailures" THEN 25
  ELSE 35

RECURSIVE SumWeights(_, _)
\* a collector that throws catches its own error and answers false
SumWeights(signals, n) ==
  IF n = 0 THEN 0
  ELSE SumWeights(signals, n - 1) + (IF signals[n] = "yes" THEN Weight(Collectors[n]) ELSE 0)

\* _checkBasicFraudIndicators without the Math.min of line 246
CheckBasicFraudIndicatorsUncapped(signals, basicThrows) ==
  IF basicThrows THEN 20 ELSE SumWeights(signals, Len(Collectors))

\* _checkBasicFraudIndicators: the capped sum of the weights, 0.2 when the body throws
CheckBasicFraudIndicators(signals, basicThrows) ==
  IF basicThrows THEN 20
  ELSE IF SumWeights(signals, Len(Collectors)) > 100 THEN 100
  ELSE SumWeights(signals, Len(Collectors))

\* tfModel.predict: the model's score, 0.5 when anything throws inside it
Predict(ml, prediction) == IF ml = "fails" THEN 50 ELSE prediction

\* _getMLPrediction: 0 when detection is disabled, 0.2 when preparing the
\* features or the call of the model throws, else what tfModel.predict returns
GetMLPrediction(ml, prediction) ==
  IF ml = "disabled" THEN 0
  ELSE IF ml = "throws" THEN 20
  ELSE Predict(ml, prediction)

\* analyzeTransaction: 0.4 * basic + 0.6 * ml; redis.set swallows its own
\* error; an error that reaches the catch of analyzeTransaction gives 0.5
AnalyzeTransaction(signals, basicThrows, ml, prediction, cacheThrows, bodyThrows) ==
  IF bodyThrows THEN [score |-> 5000, error |-> TRUE]
  ELSE [score |-> 40 * CheckBasicFraudIndicators(signals, basicThrows)
                  + 60 * GetMLPrediction(ml, prediction),
        error |-> FALSE]

\* Submit calls analyzeTransaction (processTransaction lines 57-58)
Analyze ==
  /\ analysis.pc = "idle"
  /\ \E signals \in [1..Len(Collectors) -> Outcomes], basicThrows \in BOOLEAN,
        ml \in MlOutcomes, prediction \in Predictions,
        cacheThrows \in BOOLEAN, bodyThrows \in BOOLEAN :
       /\ ml # "ok" => prediction = 0
       /\ basicThrows => \A i \in 1..Len(Collectors) : signals[i] = "no"
       /\ LET r == AnalyzeTransaction(signals, basicThrows, ml, prediction,
                                      cacheThrows, bodyThrows)
          IN analysis' = [pc |-> "scored", signals |-> signals, basicThrows |-> basicThrows,
                          ml |-> ml, prediction |-> prediction, cacheThrows |-> cacheThrows,
                          bodyThrows |-> bodyThrows, score |-> r.score, error |-> r.error,
                          decision |-> None, detectionType |-> None]

\* processTransaction lines 61-64: the threshold decides between hold and settlement
Threshold ==
  /\ analysis.pc = "scored"
  /\ analysis' = [analysis EXCEPT
                    !.pc = "decided",
                    !.decision = IF analysis.score > FRAUD_ALERT_THRESHOLD * 100
                                 THEN "hold" ELSE "settle"]

NextScoring ==
  \/ Analyze /\ UNCHANGED <<core, check, scan, ledger, desk, sink, closure>>
  \/ Threshold /\ UNCHANGED <<core, check, scan, ledger, desk, sink, closure>>

SpecScoring == Init /\ [][NextScoring]_vars

\* the detectionType of each collector's indicator, in the order of Collectors
DetectionTypes == <<"unusual-amount", "unusual-location", "unusual-time", "multiple-failures",
                    "suspicious-pattern">>

\* createFraudCase lines 123-137: ml-detection, unless the result carries
\* indicators (the result of the catch of analyzeTransaction carries none):
\* then the type of the first indicator that is set, in the order of the
\* else-if chain
DetectionType(signals, error) ==
  LET set == {i \in 1..Len(Collectors) : signals[i] = "yes"}
  IN IF error \/ set = {} THEN "ml-detection"
     ELSE DetectionTypes[CHOOSE i \in set : \A j \in set : i <= j]

\* processTransaction line 72: a hold calls createFraudCase with the result of
\* the analysis; the case gets its detectionType
Escalate ==
  /\ analysis.pc = "decided"
  /\ analysis.decision = "hold"
  /\ analysis' = [analysis EXCEPT
                    !.pc = "escalated",
                    !.detectionType = DetectionType(analysis.signals, analysis.error)]

NextDetection ==
  \/ Analyze /\ UNCHANGED <<core, check, scan, ledger, desk, sink, closure>>
  \/ Threshold /\ UNCHANGED <<core, check, scan, ledger, desk, sink, closure>>
  \/ Escalate /\ UNCHANGED <<core, check, scan, ledger, desk, sink, closure>>

SpecDetection == Init /\ [][NextDetection]_vars

\* ---------------------------------------------------------- the fraud desk
Statuses == {"open", "investigating", "resolved-genuine", "resolved-fraud", "closed"}
Terminal == {"resolved-genuine", "resolved-fraud", "closed"}
\* assignedTo of a request: absent, a manager, a user who is neither admin nor manager
Assignees == {None, "manager", "customer"}
\* the action types of the schema (security-reset is handled as other is)
ActionTypes == {"account-freeze", "transaction-reversal", "customer-contact", "other"}

\* updateFraudCase lines 134-136: the case is resolved as fraud and its account exists
Freezes(accts, c, status) == status = "resolved-fraud" /\ Present(accts, c.accountId)

\* updateFraudCase lines 130-171, the document that line 173 saves: the status
\* is assigned first (line 131), the freeze action is pushed (141-145), the
\* assignee is set (160), and resolutionDate is stamped when the status of the
\* request is terminal and differs from the status the document has by then (168-170)
UpdateCaseDoc(c, status, assignee, frozen, now) ==
  LET c1 == IF status # None THEN [c EXCEPT !.status = status] ELSE c
      c2 == IF status # None /\ frozen
            THEN [c1 EXCEPT !.actions = Append(@, "account-freeze")] ELSE c1
      c3 == IF assignee # None THEN [c2 EXCEPT !.assignedTo = assignee] ELSE c2
  IN IF status \in Terminal /\ c3.status # status
     THEN [c3 EXCEPT !.resolutionDate = now] ELSE c3

\* updateFraudCase: the account is frozen and saved at line 138, before the
\* assignee is checked at lines 155-158; an invalid assignee answers 400 and
\* the case is not saved; the owner is notified of the freeze at line 148, and
\* an error of that call would answer the request before the case is saved
UpdateCaseNotifying(outcome) ==
  /\ desk.clock <= MaxAdmin
  /\ \E i \in 1..Len(fraudCases), status \in Statuses \cup {None}, assignee \in Assignees :
       LET c == fraudCases[i]
           frozen == Freezes(accounts, c, status)
       IN /\ status # None \/ assignee # None
          /\ accounts' = IF frozen THEN [accounts EXCEPT ![c.accountId].isFrozen = TRUE]
                         ELSE accounts
          /\ IF frozen /\ NotificationError(outcome) # None
             THEN /\ thrown' = NotificationError(outcome)
                  /\ fraudCases' = fraudCases
             ELSE IF assignee = "customer"
             THEN /\ thrown' = "assignee"
                  /\ fraudCases' = fraudCases
             ELSE /\ thrown' = None
                  /\ fraudCases' = [fraudCases EXCEPT
                                      ![i] = UpdateCaseDoc(c, status, assignee, frozen,
                                                           desk.clock)]
          /\ desk' = [clock |-> desk.clock + 1, request |-> "updateFraudCase",
                      case |-> i, arg |-> status]
  /\ UNCHANGED <<transactions, nextTx, updates, pc, doc, tid, rid, check, analysis, scan, ledger, closure>>

UpdateCase == (\E outcome \in Sinks : UpdateCaseNotifying(outcome)) /\ UNCHANGED sink

\* Transaction.createReversal run to its end by one caller: [ok, accounts,
\* transactions]; the original is saved as reversed (post-save hook), then the
\* refund r is saved (schema validation, post-save hook) or its save throws
CreateReversal(accts, txs, t, r) ==
  LET saved == [txs[t] EXCEPT !.status = "reversed",
                              !.relatedTransactions = Append(@, r),
                              !.statusHistory = Append(@, [status |-> "reversed", reason |-> ""])]
      a1 == PostSaveHook(accts, saved)
      d == PreSaveHook(NewReversal(txs[t], t), TRUE)
  IN IF SchemaValid(d)
     THEN [ok |-> TRUE, accounts |-> PostSaveHook(a1, d),
           transactions |-> [txs EXCEPT ![t] = saved] @@ (r :> d)]
     ELSE [ok |-> FALSE, accounts |-> a1, transactions |-> [txs EXCEPT ![t] = saved]]

\* addFraudCaseAction line 231: the linked transaction is found and completed
Reverses(txs, c, actionType) ==
  /\ actionType = "transaction-reversal"
  /\ c.transactionId \in DOMAIN txs
  /\ txs[c.transactionId].status = "completed"

\* addFraudCaseAction: the action is pushed (line 211), the special actions
\* are handled (214-238: freeze of the account, customerNotified, reversal of
\* the linked transaction when it is completed), the case is saved (240); an
\* error of createReversal answers the request before the case is saved
AddAction ==
  /\ desk.clock <= MaxAdmin
  /\ \E i \in 1..Len(fraudCases), actionType \in ActionTypes :
       LET c == fraudCases[i]
           c1 == [c EXCEPT !.actions = Append(@, actionType),
                           !.customerNotified = (@ \/ actionType = "customer-contact")]
           r == CreateReversal(accounts, transactions, c.transactionId, nextTx)
       IN /\ desk' = [clock |-> desk.clock + 1, request |-> "addFraudCaseAction",
                      case |-> i, arg |-> actionType]
          /\ IF Reverses(transactions, c, actionType)
             THEN /\ nextTx <= MaxTx
                  /\ nextTx' = nextTx + 1
                  /\ accounts' = r.accounts
                  /\ transactions' = r.transactions
                  /\ thrown' = IF r.ok THEN None ELSE "save"
                  /\ fraudCases' = IF r.ok THEN [fraudCases EXCEPT ![i] = c1] ELSE fraudCases
             ELSE /\ accounts' = IF actionType = "account-freeze" /\ Present(accounts, c.accountId)
                                 THEN [accounts EXCEPT ![c.accountId].isFrozen = TRUE]
                                 ELSE accounts
                  /\ fraudCases' = [fraudCases EXCEPT ![i] = c1]
                  /\ thrown' = None
                  /\ UNCHANGED <<transactions, nextTx>>
  /\ UNCHANGED <<updates, pc, doc, tid, rid, check, analysis, scan, ledger, sink, closure>>

\* one client that submits and reports fraud, and the fraud desk
NextCases ==
  \/ /\ thrown = None
     /\ \/ /\ UNCHANGED aux
           /\ \/ nextTx <= MaxFraudTx /\ SubmitValidate(1)
              \/ SubmitSavePending(1)
              \/ SubmitCreateFraudCase(1)
              \/ SubmitHold(1)
              \/ SubmitProcess(1)
              \/ SubmitComplete(1)
              \/ ReportRead(1)
              \/ ReportUpdateCase(1)
              \/ ReportCreateCase(1)
              \/ ReportSaveTransaction(1)
        \/ UpdateCase
        \/ AddAction
  \/ Respond

SpecCases == Init /\ [][NextCases]_vars

\* ------------------------------------------------- the notification sink
\* one client that submits and reverses, and the fraud desk resolving cases,
\* while the sink answers or fails the notifications of each request
NextNotify ==
  \/ /\ thrown = None
     /\ \/ /\ UNCHANGED aux
           /\ \/ nextTx <= MaxFraudTx /\ SubmitValidate(1)
              \/ SubmitSavePending(1)
              \/ SubmitCreateFraudCase(1)
              \/ SubmitProcess(1)
              \/ ReverseRead(1)
              \/ ReverseSaveOriginal(1)
        \/ \E outcome \in Sinks :
             /\ sink' = outcome
             /\ \/ /\ UNCHANGED <<check, analysis, scan, ledger, desk, closure>>
                   /\ \/ SubmitHoldNotifying(1, outcome)
                      \/ SubmitCompleteNotifying(1, outcome)
                      \/ ReverseSaveReversalNotifying(1, outcome)
                \/ desk.clock <= MaxNotified /\ UpdateCaseNotifying(outcome)
  \/ Respond

SpecNotify == Init /\ [][NextNotify]_vars

\* ------------------------------------------------- the escalation failing
\* where createFraudCase can throw inside its try: at the account lookup or
\* the save of the case (lines 143-176), or at the save of the transaction (line 180)
FailurePoints == {"case", "transaction"}

\* a createFraudCase whose catch logs the error and throws it on
CreateFraudCaseRethrows(at) == "escalation"

\* createFraudCase lines 188-192: the error is logged, null is returned and
\* nothing is thrown to processTransaction
CreateFraudCaseError(at) == None

\* createFraudCase failing at one of its awaits: what was saved before stays
\* saved, fraudReviewed is set on the document once line 179 has run, and a
\* save that throws runs no post-save hook; an error that reached
\* processTransaction would abort the session (part_000 lines 125-134)
SubmitCreateFraudCaseFails(p) ==
  /\ pc[p] = "s_case"
  /\ \E at \in FailurePoints :
       /\ fraudCases' = IF at = "transaction"
                        THEN Append(fraudCases, NewFraudCase(accounts, tid[p], doc[p]))
                        ELSE fraudCases
       /\ thrown' = CreateFraudCaseError(at)
       /\ IF CreateFraudCaseError(at) = None
          THEN /\ doc' = [doc EXCEPT ![p].fraudReviewed = (at = "transaction")]
               /\ pc' = [pc EXCEPT ![p] = "s_hold"]
               /\ UNCHANGED <<tid, rid>>
          ELSE Done(p)
  /\ UNCHANGED <<accounts, transactions, nextTx, updates>>

\* one client submitting while the escalation can fail
NextEscalation ==
  \/ /\ thrown = None
     /\ UNCHANGED aux
     /\ \/ SubmitValidate(1)
        \/ SubmitSavePending(1)
        \/ SubmitCreateFraudCase(1)
        \/ SubmitCreateFraudCaseFails(1)
        \/ SubmitHold(1)
        \/ SubmitProcess(1)
        \/ SubmitComplete(1)
  \/ Respond

SpecEscalation == Init /\ [][NextEscalation]_vars

\* -------------------------------------------------- the provider's answer
\* analyzeTransaction up to the await of tfModel.predict (part_001 lines 19-22
\* and 416-428): the indicators are collected, detection is enabled, the
\* prediction is requested; nothing in the code bounds the wait
AnalyzeCall ==
  /\ analysis.pc = "idle"
  /\ \E signals \in [1..Len(Collectors) -> Outcomes], basicThrows \in BOOLEAN :
       /\ basicThrows => \A i \in 1..Len(Collectors) : signals[i] = "no"
       /\ analysis' = [NoAnalysis EXCEPT !.pc = "waiting", !.signals = signals,
                                         !.basicThrows = basicThrows]

\* the promise of tfModel.predict settles (line 428): analyzeTransaction goes
\* on to its result
ProviderResponds ==
  /\ analysis.pc = "waiting"
  /\ \E ml \in MlOutcomes \ {"disabled"}, prediction \in Predictions,
        cacheThrows \in BOOLEAN, bodyThrows \in BOOLEAN :
       /\ ml # "ok" => prediction = 0
       /\ LET r == AnalyzeTransaction(analysis.signals, analysis.basicThrows, ml,
                                      prediction, cacheThrows, bodyThrows)
          IN analysis' = [analysis EXCEPT
                            !.pc = "scored", !.ml = ml, !.prediction = prediction,
                            !.cacheThrows = cacheThrows, !.bodyThrows = bodyThrows,
                            !.score = r.score, !.error = r.error]

NextOutage ==
  \/ AnalyzeCall /\ UNCHANGED <<core, check, scan, ledger, desk, sink, closure>>
  \/ ProviderResponds /\ UNCHANGED <<core, check, scan, ledger, desk, sink, closure>>
  \/ Threshold /\ UNCHANGED <<core, check, scan, ledger, desk, sink, closure>>

\* the event loop runs every continuation that is ready; when the provider
\* answers is not the program's to decide
SpecOutage ==
  /\ Init
  /\ [][NextOutage]_vars
  /\ WF_vars(AnalyzeCall /\ UNCHANGED <<core, check, scan, ledger, desk, sink, closure>>)
  /\ WF_vars(Threshold /\ UNCHANGED <<core, check, scan, ledger, desk, sink, closure>>)

\* ----------------------------------------------------- creating an account
\* the _id of the account that createAccount creates
NewAcct == "a3"

\* the initial balances a client can ask for
InitialBalances == {0, 1, 2}

\* createAccount lines 38-45: new Transaction({... status: 'completed' ...})
InitialDeposit(a, initialBalance) ==
  [NoDoc EXCEPT !.destinationAccountId = a, !.amount = initialBalance,
                !.transactionType = "deposit", !.status = "completed"]

\* createAccount lines 12-37: new Account({... balance: initialBalance || 0
\* ...}), creditLimit 5000 for a credit account, account.save() (pre-save sets
\* availableBalance = balance; the limits are the defaults of the schema); an
\* initial balance above 0 goes on to the deposit transaction, else the
\* request is answered
CreateAccountSave(p) ==
  /\ FirstFree(p)
  /\ NewAcct \notin DOMAIN accounts
  /\ \E accountType \in {"checking", "credit"}, initialBalance \in InitialBalances :
       /\ accounts' = accounts @@
                        (NewAcct :> NewAccount(accountType, initialBalance,
                                               IF accountType = "credit" THEN 5000 ELSE 0,
                                               5000, 10000))
       /\ IF initialBalance > 0
          THEN /\ nextTx <= MaxTx
               /\ doc' = [doc EXCEPT ![p] = InitialDeposit(NewAcct, initialBalance)]
               /\ tid' = [tid EXCEPT ![p] = nextTx]
               /\ nextTx' = nextTx + 1
               /\ pc' = [pc EXCEPT ![p] = "a_deposit"]
          ELSE UNCHANGED <<doc, tid, nextTx, pc>>
  /\ thrown' = None
  /\ UNCHANGED <<transactions, fraudCases, updates, rid>>

\* line 47: depositTransaction.save(): the pre-save hook seeds the history
\* with the status of the new document, the post-save hook calls the ledger
\* with that status; the account is answered (lines 50-55)
CreateAccountDeposit(p) ==
  /\ pc[p] = "a_deposit"
  /\ LET d == PreSaveHook(doc[p], TRUE)
     IN /\ transactions' = transactions @@ (tid[p] :> d)
        /\ accounts' = PostSaveHook(accounts, d)
  /\ Done(p)
  /\ thrown' = None
  /\ UNCHANGED <<fraudCases, nextTx, updates>>

\* the requests of the four types of the service, with or without the
\* accounts their type requires, and payments that name a destination: a2, or
\* the _id of the account that createAccount may or may not have created
LedgerRequests ==
  {r \in [transactionType : {"transfer", "withdrawal", "deposit", "payment"},
          sourceAccountId : {"a1", None},
          destinationAccountId : {"a2", NewAcct, None},
          amount : Amts] :
     /\ r.transactionType = "deposit" => r.sourceAccountId = None
     /\ r.transactionType = "withdrawal" => r.destinationAccountId = None
     /\ r.transactionType # "payment" => r.destinationAccountId # NewAcct}

\* one client that creates an account, submits and reverses
NextLifecycle ==
  \/ /\ thrown = None
     /\ UNCHANGED aux
     /\ \/ CreateAccountSave(1)
        \/ CreateAccountDeposit(1)
        \/ SubmitValidateOf(1, LedgerRequests)
        \/ SubmitSavePending(1)
        \/ SubmitCreateFraudCase(1)
        \/ SubmitHold(1)
        \/ SubmitProcess(1)
        \/ SubmitComplete(1)
        \/ ReverseRead(1)
        \/ ReverseSaveOriginal(1)
        \/ ReverseSaveReversal(1)
  \/ Respond

SpecLifecycle == Init /\ [][NextLifecycle]_vars

\* ------------------------------------------------------ closing an account
\* the committed transactions in status pending that name the account
\* (countDocuments of closeAccount lines 202-208)
PendingTransactions(txs, a) ==
  {t \in DOMAIN txs :
     /\ txs[t].status = "pending"
     /\ a \in {txs[t].sourceAccountId, txs[t].destinationAccountId}}

\* closeAccount lines 183-199, for a request of the owner or an admin on an
\* account that exists: findById reads the account; a balance other than 0 is
\* answered with 400 before anything else is awaited
CloseAccountFind(a) ==
  /\ closure.pc = "idle"
  /\ closure.served < MaxCloses
  /\ IF accounts[a].balance # 0
     THEN /\ thrown' = "close"
          /\ closure' = [closure EXCEPT !.served = @ + 1]
     ELSE /\ thrown' = None
          /\ closure' = [closure EXCEPT !.pc = "count", !.account = a]
  /\ UNCHANGED <<accounts, transactions, fraudCases, nextTx, updates, pc, doc, tid, rid,
                 check, analysis, scan, ledger, desk, sink>>

\* lines 202-214: countDocuments of the pending transactions of the account; one
\* or more is answered with 400, none lets the handler set isActive, closedAt
\* and closureReason on the document it read and call save (lines 217-221)
CloseAccountCount ==
  /\ closure.pc = "count"
  /\ IF PendingTransactions(transactions, closure.account) # {}
     THEN /\ thrown' = "close"
          /\ closure' = [closure EXCEPT !.pc = "idle", !.account = None, !.served = @ + 1]
     ELSE /\ thrown' = None
          /\ closure' = [closure EXCEPT !.pc = "save"]
  /\ UNCHANGED <<accounts, transactions, fraudCases, nextTx, updates, pc, doc, tid, rid,
                 check, analysis, scan, ledger, desk, sink>>

\* line 221: account.save() writes the modified paths isActive, closedAt and
\* closureReason; the other fields of the stored account keep what they have by then
CloseAccountSave ==
  /\ closure.pc = "save"
  /\ accounts' = [accounts EXCEPT ![closure.account].isActive = FALSE,
                                  ![closure.account].closedAt = 1]
  /\ closure' = [closure EXCEPT !.pc = "idle", !.account = None, !.served = @ + 1]
  /\ thrown' = None
  /\ UNCHANGED <<transactions, fraudCases, nextTx, updates, pc, doc, tid, rid,
                 check, analysis, scan, ledger, desk, sink>>

\* one client that submits while closeAccount requests are served
NextClosure ==
  \/ /\ thrown = None
     /\ \/ /\ UNCHANGED aux
           /\ \/ SubmitValidate(1)
              \/ SubmitSavePending(1)
              \/ SubmitCreateFraudCase(1)
              \/ SubmitHold(1)
              \/ SubmitProcess(1)
              \/ SubmitComplete(1)
        \/ \E a \in Accts : CloseAccountFind(a)
        \/ CloseAccountCount
        \/ CloseAccountSave
  \/ Respond

SpecClosure == Init /\ [][NextClosure]_vars

\* ------------------------------------------------------------ properties
Balances(accts) == [a \in Accts |-> accts[a].balance]

\* a transaction document that Submit has held: scored above the threshold
Held(d) == \E i \in 1..Len(d.statusHistory) : d.statusHistory[i].reason = HighRiskReason

\* the refund-type transactions created as reversals of t
ReversalsOf(t) ==
  {r \in DOMAIN transactions :
     /\ transactions[r].transactionType = "refund"
     /\ transactions[r].relatedTransactions = <<t>>}

\* the request of slot p is in the middle of reversing t
Reversing(p, t) == pc[p] \in {"r_orig", "r_rev"} /\ tid[p] = t

\* the balance an account is opened with in Init
OpeningBalance(a) == IF accounts[a].accountType = "checking" THEN 3 ELSE 0

\* C1: every non-credit account has balance >= 0 and every credit account has
\* balance >= -creditLimit, in every state, after any sequence of Submit,
\* Reverse and account operations
BalanceInvariant ==
  \A a \in Accts :
    IF accounts[a].accountType = "credit"
    THEN accounts[a].balance >= -accounts[a].creditLimit
    ELSE accounts[a].balance >= 0

\* C2: a Submit that settles moves the amount exactly once: the explicit ledger
\* call debits the source and credits the destination by the amount, and the
\* save of the completed transaction that follows moves no balance again
SettledExactlyOnce ==
  [][\A p \in Procs :
       /\ (pc[p] = "s_process" /\ pc'[p] = "s_complete") =>
            Balances(accounts') =
              Balances(UpdateBalances(accounts, ProcessArgs(doc[p]).src, ProcessArgs(doc[p]).dst,
                                      doc[p].amount, "completed").accounts)
       /\ (pc[p] = "s_complete" /\ pc'[p] = "idle") =>
            Balances(accounts') = Balances(accounts)]_vars

\* C3: a Submit that holds its transaction mutates no ledger field: from the
\* hold decision to the return of status pending, balance, pendingTransactions
\* and availableBalance of every account keep their values
HeldNoLedgerMutation ==
  [][\A p \in Procs :
       (/\ pc[p] \in {"s_save", "s_case", "s_hold"}
        /\ pc'[p] \in {"s_case", "s_hold", "idle"}
        /\ pc'[p] # pc[p]) => accounts' = accounts]_vars

\* C4: no step taken for a held transaction changes the balance of any
\* account: neither the steps of the Submit that holds it, nor a reversal
\* (a held transaction is never the original of a reversal)
HeldNeverMovesBalance ==
  [][/\ \A p \in Procs :
          (/\ pc[p] \in {"s_save", "s_case", "s_hold"}
           /\ pc'[p] \in {"s_case", "s_hold", "idle"}
           /\ pc'[p] # pc[p]) => Balances(accounts') = Balances(accounts)
     /\ \A p \in Procs : \A t \in DOMAIN transactions :
          Reversing(p, t) => ~Held(transactions[t])
     /\ \A t \in DOMAIN transactions :
          Held(transactions[t]) => transactions[t].status = "pending"]_vars

\* a held transaction has been persisted by a Submit that returned status pending
HeldPersisted ==
  \E t \in DOMAIN transactions :
    /\ Held(transactions[t])
    /\ transactions[t].sourceAccountId # None
    /\ \A p \in Procs : pc[p] = "idle"

\* C5: in every state, availableBalance = balance - pendingTransactions for every account
AvailableBalanceIdentity ==
  \A a \in Accts :
    accounts[a].availableBalance = accounts[a].balance - accounts[a].pendingTransactions

\* an account whose balance and reservation have both been changed by the ledger
LedgerTouched ==
  \E a \in Accts :
    /\ accounts[a].pendingTransactions > 0
    /\ accounts[a].balance # OpeningBalance(a)

\* C6: the reversal of a transfer is a completed transaction and moves the
\* funds back: once only the transfer and its reversal have run, every balance
\* is the opening balance again
ReversalRestoresBalances ==
  /\ \A t \in DOMAIN transactions : \A r \in ReversalsOf(t) :
       transactions[t].transactionType = "transfer" => transactions[r].status = "completed"
  /\ (/\ DOMAIN transactions = {1, 2}
      /\ nextTx = 3
      /\ \A p \in Procs : pc[p] = "idle"
      /\ transactions[1].transactionType = "transfer"
      /\ ReversalsOf(1) = {2})
     => \A a \in Accts : accounts[a].balance = OpeningBalance(a)

\* C7: a persisted reversal R of T: T is reversed, R is a refund of the same
\* amount and currency with source and destination swapped, R links to T and T links to R
ReversalLinked ==
  \A r \in DOMAIN transactions :
    transactions[r].transactionType = "refund" =>
      /\ Len(transactions[r].relatedTransactions) = 1
      /\ LET t == transactions[r].relatedTransactions[1]
         IN /\ t \in DOMAIN transactions
            /\ transactions[t].status = "reversed"
            /\ transactions[r].amount = transactions[t].amount
            /\ transactions[r].currency = transactions[t].currency
            /\ transactions[r].sourceAccountId = transactions[t].destinationAccountId
            /\ transactions[r].destinationAccountId = transactions[t].sourceAccountId
            /\ \E i \in 1..Len(transactions[t].relatedTransactions) :
                 transactions[t].relatedTransactions[i] = r

\* a Reverse of a transfer has returned its reversal
ReversalPersisted ==
  \E t \in DOMAIN transactions :
    /\ transactions[t].transactionType = "transfer"
    /\ ReversalsOf(t) # {}
    /\ \A p \in Procs : ~Reversing(p, t)

\* C8: a transaction has at most one refund-type reversal
AtMostOneReversal ==
  \A t \in DOMAIN transactions : Cardinality(ReversalsOf(t)) <= 1

\* C9: Reverse is atomic: once no Reverse of it is in flight, a transaction
\* in status reversed has its reversal persisted
ReversalAtomic ==
  \A t \in DOMAIN transactions :
    (transactions[t].status = "reversed" /\ \A p \in Procs : ~Reversing(p, t))
      => ReversalsOf(t) # {}

\* C10: a Reverse of a transaction that does not exist or is not completed
\* does not proceed, and the Reverse that is refused creates no transaction
\* and changes no transaction and no account
RefusedReversalChangesNothing ==
  [][/\ \A p \in Procs :
          (pc[p] = "idle" /\ pc'[p] = "r_orig") =>
            /\ tid'[p] \in DOMAIN transactions
            /\ transactions[tid'[p]].status = "completed"
     /\ thrown' = "reversal" =>
          /\ \E t \in TxIds :
               t \notin DOMAIN transactions \/ transactions[t].status # "completed"
          /\ UNCHANGED <<accounts, transactions, fraudCases, nextTx, pc, doc, tid, rid>>]_vars

\* a Reverse has been refused while a held, a reversed and no completed transaction exist
ReversalRefused ==
  /\ thrown = "reversal"
  /\ \E t \in DOMAIN transactions : transactions[t].status = "pending"
  /\ \E t \in DOMAIN transactions : transactions[t].status = "reversed"
  /\ \A t \in DOMAIN transactions : transactions[t].status # "completed"

\* the validation table of Submit: the accounts a type requires are named, the
\* source is known, active, not frozen, has the funds or the credit and stays
\* within its limits, the destination is known, active and not frozen
Admissible(accts, txs, r) ==
  LET src == r.sourceAccountId
      dst == r.destinationAccountId
      needsSrc == r.transactionType \in {"transfer", "withdrawal", "payment"}
      needsDst == r.transactionType \in {"transfer", "deposit"}
  IN /\ r.transactionType \in {"transfer", "withdrawal", "deposit", "payment"}
     /\ needsSrc =>
          /\ src \in DOMAIN accts
          /\ accts[src].isActive /\ ~accts[src].isFrozen
          /\ accts[src].accountType # "credit" => accts[src].availableBalance >= r.amount
          /\ accts[src].accountType = "credit" =>
               accts[src].balance - r.amount >= -accts[src].creditLimit
          /\ r.amount <= accts[src].perTransaction
          /\ DailyTotal(txs, src) + r.amount <= accts[src].daily
     /\ needsDst =>
          /\ dst \in DOMAIN accts
          /\ accts[dst].isActive /\ ~accts[dst].isFrozen

\* C11: all-or-nothing: when Submit returns an error after the pending record
\* was saved, the record does not exist and the reservation its save added to
\* the source account is gone again
RollbackUndoesAttempt ==
  [][\A p \in Procs :
       (pc[p] = "s_process" /\ pc'[p] = "idle" /\ thrown' = "processing") =>
         /\ tid[p] \notin DOMAIN transactions'
         /\ accounts' = IF Present(accounts, doc[p].sourceAccountId)
                        THEN MovePending(accounts, doc[p].sourceAccountId, -doc[p].amount)
                        ELSE accounts]_vars

\* C13: a Submit passes validation only if its request meets the validation
\* table, and a Submit that fails validation creates no transaction record and
\* changes no account
ValidationFailureMutatesNothing ==
  [][/\ \A p \in Procs :
          (pc[p] = "idle" /\ pc'[p] = "s_save") => Admissible(accounts, transactions, doc'[p])
     /\ thrown' = "validation" =>
          /\ \E r \in Requests : ~Admissible(accounts, transactions, r)
          /\ UNCHANGED <<accounts, transactions, fraudCases, nextTx, pc, doc, tid, rid>>]_vars

\* a Submit has been refused for funds, credit or limits while a transaction is recorded
ValidationRefused ==
  /\ thrown = "validation"
  /\ transactions # <<>>
  /\ \E r \in Requests :
       /\ r.transactionType = "withdrawal" /\ r.sourceAccountId = "a1"
       /\ ~Admissible(accounts, transactions, r)

NoSilentPending ==
  \A t \in DOMAIN transactions :
    transactions[t].status = "pending" => Held(transactions[t])

\* the accounts a transaction document names
Named(d) == {d.sourceAccountId, d.destinationAccountId} \ {None}

\* C16: a Submit that starts while an account it names is inactive or frozen
\* does not pass validation, and its rejection changes no account
BlockedAccountRejected ==
  [][/\ \A p \in Procs :
          (pc[p] = "idle" /\ pc'[p] = "s_save") =>
            \A a \in Named(doc'[p]) : accounts[a].isActive /\ ~accounts[a].isFrozen
     /\ (thrown' = "validation" /\ \E a \in Accts : ~accounts[a].isActive \/ accounts[a].isFrozen)
          => accounts' = accounts /\ transactions' = transactions /\ pc' = pc]_vars

\* a Submit has been refused while the destination account is frozen
BlockedAccountRefused ==
  /\ thrown = "validation"
  /\ accounts["a2"].isFrozen
  /\ \A p \in Procs : pc[p] = "idle"

\* C14: a request that passes the checks before the daily limit is rejected
\* with the limit error iff the completed total of the day plus its amount
\* exceeds the daily limit (reaching the limit is accepted), and the
\* completed total of the day never exceeds the daily limit
DailyLimitExact ==
  LET a == check.account
      total == DailyTotal(check.transactions, a)
  IN /\ (check.pc = "checked" /\ check.amount <= accounts[a].perTransaction
                              /\ check.amount <= accounts[a].availableBalance) =>
          /\ (check.message = "Transaction would exceed daily limit")
               <=> (total + check.amount > accounts[a].daily)
          /\ (check.message = "") <=> (total + check.amount <= accounts[a].daily)
     /\ check.account # None => total <= accounts[a].daily

\* with 900 of 1000 completed, 150 has been rejected (as 90 would not be)
DailyLimitReached ==
  /\ check.pc = "checked"
  /\ DailyTotal(check.transactions, check.account) = 900
  /\ check.amount = 150
  /\ check.message = "Transaction would exceed daily limit"
  /\ ValidateSourceAccount(accounts, check.transactions, check.account, 90) = ""

\* C15: every request on a credit source account that passes the funds check
\* and completes reduces the balance by exactly its amount: once the client's
\* requests are answered, the balance is the opening balance minus the
\* completed amounts drawn from the account
CreditDebitedByAmount ==
  \A a \in Accts :
    (accounts[a].accountType = "credit" /\ \A p \in Procs : pc[p] = "idle") =>
      accounts[a].balance = OpeningBalance(a) - DailyTotal(transactions, a)

\* something threw during the scoring call
ScoringFailed(a) ==
  \/ \E i \in 1..Len(a.signals) : a.signals[i] = "throws"
  \/ a.basicThrows \/ a.ml \in {"throws", "fails"} \/ a.cacheThrows \/ a.bodyThrows

\* C20: whenever anything throws during scoring, analyzeTransaction returns
\* the fallback score 0.5, and Submit thresholds that value (0.5 is not above
\* the threshold: the transaction is settled)
FallbackOnScoringFailure ==
  (analysis.pc # "idle" /\ ScoringFailed(analysis)) =>
    /\ analysis.score = 5000
    /\ analysis.pc = "decided" => analysis.decision = "settle"

\* C18: every transaction has at most one fraud case in status open or investigating
AtMostOneActiveCase ==
  \A t \in TxIds :
    Cardinality({i \in CasesOf(t) : fraudCases[i].status \in {"open", "investigating"}}) <= 1

\* C12: concurrent ledger calls never interleave their read-modify-write: a
\* call whose write meets another call's write on the same account aborts
\* whole, and the accounts are always what the committed calls give when
\* applied one after the other, each adding its own delta to balance and to
\* pendingTransactions (no lost update)
LedgerSerializable ==
  /\ accounts = ledger.serial
  /\ \A c \in Calls : \A d \in Calls \ {c} :
       ledger.calls[c].wrote \cap ledger.calls[d].wrote = {}

\* two calls on the same account were in flight together and both committed:
\* the account carries both debits, of 1 and of 2
LedgerOverlapCommitted ==
  /\ ledger.overlaps >= 2
  /\ \A c \in Calls : ledger.calls[c].pc = "idle"
  /\ ledger.started = 2
  /\ accounts["a1"].accountType = "checking"
  /\ accounts["a1"].balance = OpeningBalance("a1") - 3

\* C21: when scoring is enabled and the call of the scoring provider fails,
\* the score Submit thresholds is exactly 0.5, whatever the basic indicators
\* say, and the analysis reports no error to Submit
OutageScoresHalf ==
  (analysis.pc # "idle" /\ analysis.ml \in {"throws", "fails"} /\ ~analysis.bodyThrows) =>
    /\ analysis.score = 5000
    /\ ~analysis.error

\* C22: when the scoring provider is disabled or its prediction throws, the
\* model's share of the score is 0: the combined score is 0.4 x basicScore,
\* and the analysis does not fail
UnavailableModelScoresZero ==
  (analysis.pc # "idle" /\ analysis.ml \in {"disabled", "throws", "fails"}
     /\ ~analysis.bodyThrows) =>
    /\ analysis.score =
         40 * CheckBasicFraudIndicators(analysis.signals, analysis.basicThrows)
    /\ ~analysis.error

\* C23: no Submit blocks for ever: a Submit that waits for the scoring
\* provider eventually gets its hold-or-settle decision, also when the
\* provider never answers
SubmitNeverBlocks == (analysis.pc = "waiting") ~> (analysis.pc = "decided")

\* C24: a Submit that has decided to hold keeps its outcome whatever becomes
\* of the fraud case: the escalation step throws nothing and leads to the
\* hold, the hold persists the transaction as pending with the high-risk
\* history entry and returns without an error; hence every request that got a
\* transaction _id and was scored above the threshold is persisted as held
HoldSurvivesEscalationFailure ==
  [][/\ pc[1] = "s_case" => (pc'[1] \in {"s_case", "s_hold"} /\ thrown' = None)
     /\ (pc[1] = "s_hold" /\ pc'[1] # "s_hold") =>
          /\ thrown' = None
          /\ tid[1] \in DOMAIN transactions'
          /\ transactions'[tid[1]].status = "pending"
          /\ Held(transactions'[tid[1]])
          /\ transactions'[tid[1]].fraudScore > FRAUD_ALERT_THRESHOLD]_vars

\* a Submit held its transaction and returned although no fraud case could be created
HeldWithoutCase ==
  \E t \in DOMAIN transactions :
    /\ Held(transactions[t])
    /\ transactions[t].status = "pending"
    /\ CasesOf(t) = {}
    /\ pc[1] = "idle"
    /\ thrown = None

\* the updateFraudCase request that has just been served, and the one that was saved
UpdateCaseServed == desk'.clock # desk.clock /\ desk'.request = "updateFraudCase"
UpdateCaseSaved == UpdateCaseServed /\ thrown' = None

\* the account-freeze actions in the action log of a case
Freezings(c) == Cardinality({k \in 1..Len(c.actions) : c.actions[k] = "account-freeze"})

\* C25: an UpdateCase that moves a case to resolved-fraud leaves the linked
\* account frozen and an account-freeze action in the log of the case, and an
\* UpdateCase that fails without saving the case freezes no account
ResolvedFraudFreezes ==
  [][UpdateCaseServed =>
       /\ \A i \in 1..Len(fraudCases) :
            (fraudCases'[i].status = "resolved-fraud"
               /\ fraudCases[i].status # "resolved-fraud") =>
              /\ accounts'[fraudCases'[i].accountId].isFrozen
              /\ Freezings(fraudCases'[i]) >= 1
       /\ thrown' # None =>
            \A a \in Accts : accounts'[a].isFrozen = accounts[a].isFrozen]_vars

\* C26: an UpdateCase that names the terminal status the case already has
\* keeps resolutionDate as it was stamped and adds no account-freeze action
ResolutionIdempotent ==
  [][UpdateCaseSaved =>
       LET i == desk'.case
       IN (fraudCases[i].status \in Terminal /\ desk'.arg = fraudCases[i].status) =>
            /\ fraudCases'[i].resolutionDate = fraudCases[i].resolutionDate
            /\ Freezings(fraudCases'[i]) = Freezings(fraudCases[i])]_vars

\* C27: an UpdateCase that moves a case from open or investigating into a
\* terminal status stamps resolutionDate
ResolutionStamped ==
  [][UpdateCaseSaved =>
       LET i == desk'.case
       IN (fraudCases[i].status \notin Terminal /\ fraudCases'[i].status \in Terminal) =>
            fraudCases'[i].resolutionDate # 0]_vars

\* C28: a case in a terminal status keeps that status whatever UpdateCase or
\* reportFraud does afterwards
TerminalImmutable ==
  [][\A i \in 1..Len(fraudCases) :
       fraudCases[i].status \in Terminal =>
         fraudCases'[i].status = fraudCases[i].status]_vars

\* C29: every AddAction appends its action to the log of the case; a
\* transaction-reversal action creates a reversal of the linked transaction
\* exactly when that transaction is completed, and leaves the transactions
\* alone when it is not
AddActionAppends ==
  [][(desk'.clock # desk.clock /\ desk'.request = "addFraudCaseAction") =>
       LET i == desk'.case
           t == fraudCases[i].transactionId
           completed == t \in DOMAIN transactions /\ transactions[t].status = "completed"
       IN /\ fraudCases'[i].actions = Append(fraudCases[i].actions, desk'.arg)
          /\ (desk'.arg = "transaction-reversal" /\ completed) =>
               /\ transactions'[t].status = "reversed"
               /\ \E r \in DOMAIN transactions' \ DOMAIN transactions :
                    transactions'[r].relatedTransactions = <<t>>
          /\ ~(desk'.arg = "transaction-reversal" /\ completed) =>
               transactions' = transactions]_vars

\* C30: a failing notification sink changes nothing of the core: no step
\* answers with an error of the sink, and every step of Submit (held or
\* completed), Reverse and UpdateCase leads to the same accounts,
\* transactions, cases and answer with a failing sink as with a working one
NotificationFailureHarmless ==
  [][/\ thrown' # "notification"
     /\ SubmitHoldNotifying(1, "fails") <=> SubmitHoldNotifying(1, "ok")
     /\ SubmitCompleteNotifying(1, "fails") <=> SubmitCompleteNotifying(1, "ok")
     /\ ReverseSaveReversalNotifying(1, "fails") <=> ReverseSaveReversalNotifying(1, "ok")
     /\ UpdateCaseNotifying("fails") <=> UpdateCaseNotifying("ok")]_vars

\* the sink failed the alert of a Submit that held its transaction, and the
\* Submit returned status pending with the hold persisted
HeldDespiteSinkFailure ==
  /\ sink = "fails"
  /\ thrown = None
  /\ pc[1] = "idle"
  /\ desk.clock = 1
  /\ \E t \in DOMAIN transactions : Held(transactions[t])
  /\ \A t \in DOMAIN transactions : transactions[t].status = "pending"

\* C31: an account is closed (isActive false, closedAt set) only when its
\* balance is 0 and no transaction with it as source or destination is
\* pending, and a closeAccount that is rejected leaves the account unchanged
ClosedOnlyWhenSettled ==
  [][/\ \A a \in Accts :
          (accounts[a].closedAt = 0 /\ accounts'[a].closedAt # 0) =>
            /\ ~accounts'[a].isActive
            /\ accounts'[a].balance = 0
            /\ PendingTransactions(transactions', a) = {}
     /\ thrown' = "close" => accounts' = accounts]_vars

\* C32: for every combination of the five indicator flags and every mlScore
\* in [0,1], basicScore is the sum of the active weights 0.30, 0.20, 0.15,
\* 0.25, 0.35 capped at 1, the score is 0.4 x basicScore + 0.6 x mlScore, and
\* the score lies in [0,1] (scores in ten-thousandths)
CombinedScoreBounded ==
  (/\ analysis.pc # "idle"
   /\ analysis.ml = "ok"
   /\ ~analysis.basicThrows
   /\ ~analysis.bodyThrows) =>
    LET active(i) == analysis.signals[i] = "yes"
        sum == (IF active(1) THEN 30 ELSE 0) + (IF active(2) THEN 20 ELSE 0)
               + (IF active(3) THEN 15 ELSE 0) + (IF active(4) THEN 25 ELSE 0)
               + (IF active(5) THEN 35 ELSE 0)
        basicScore == IF sum < 100 THEN sum ELSE 100
    IN /\ analysis.score = 40 * basicScore + 60 * analysis.prediction
       /\ analysis.score >= 0
       /\ analysis.score <= 10000

\* all five indicators are active (their weights sum to 1.25) and the model
\* answers 1: the score is exactly 1
ScoredAtCeiling ==
  /\ analysis.pc = "decided"
  /\ \A i \in 1..Len(Collectors) : analysis.signals[i] = "yes"
  /\ analysis.ml = "ok"
  /\ analysis.prediction = 100
  /\ analysis.score = 10000
  /\ ~analysis.error

\* C33: source-account validation applies its checks in the order exists,
\* active, not frozen, funds (non-credit: availableBalance >= amount; credit:
\* balance - amount >= -creditLimit), per-transaction limit, daily limit, and
\* answers with the error of the first check that fails in that order
FirstFailureWins ==
  check.pc = "checked" =>
    LET a == check.account
        amount == check.amount
        acc == accounts[a]
        \* the checks in the order of the claim; only the first can fail on an
        \* account that does not exist
        fails(i) ==
          IF i = 1 THEN a \notin DOMAIN accounts
          ELSE /\ a \in DOMAIN accounts
               /\ CASE i = 2 -> ~acc.isActive
                    [] i = 3 -> acc.isFrozen
                    [] i = 4 -> IF acc.accountType = "credit"
                                THEN ~(acc.balance - amount >= -acc.creditLimit)
                                ELSE ~(acc.availableBalance >= amount)
                    [] i = 5 -> ~(amount <= acc.perTransaction)
                    [] i = 6 -> ~(DailyTotal(check.transactions, a) + amount <= acc.daily)
        error(i) ==
          CASE i = 1 -> "Source account not found"
            [] i = 2 -> "Source account is inactive"
            [] i = 3 -> "Source account is frozen"
            [] i = 4 -> IF acc.accountType = "credit" THEN "Transaction exceeds credit limit"
                        ELSE "Insufficient funds"
            [] i = 5 -> "Transaction amount exceeds per-transaction limit"
            [] i = 6 -> "Transaction would exceed daily limit"
        failing == {i \in 1..6 : fails(i)}
    IN IF failing = {} THEN check.message = ""
       ELSE check.message = error(CHOOSE i \in failing : \A j \in failing : i <= j)

\* the account lacks the funds, the amount is above the per-transaction limit
\* and the daily limit would be exceeded: the answer is the funds error
FundsErrorBeforeLimits ==
  /\ check.pc = "checked"
  /\ check.account = "a1"
  /\ accounts["a1"].isActive /\ ~accounts["a1"].isFrozen
  /\ accounts["a1"].accountType = "checking"
  /\ accounts["a1"].availableBalance < check.amount
  /\ check.amount > accounts["a1"].perTransaction
  /\ DailyTotal(check.transactions, "a1") + check.amount > accounts["a1"].daily
  /\ check.message = "Insufficient funds"

\* C34: Escalate sets detectionType to the single highest-weighted active
\* indicator of the risk result (weights: amount 0.30, location 0.20, time
\* 0.15, failures 0.25, pattern 0.35), the order amount > location > time >
\* failures > pattern only breaking ties, and to ml-detection when no
\* indicator is active
DetectionTypeHighestWeighted ==
  analysis.pc = "escalated" =>
    LET active == {i \in 1..Len(Collectors) : analysis.signals[i] = "yes"}
        weight(i) == Weight(Collectors[i])
        best == CHOOSE i \in active :
                  \A j \in active : weight(i) > weight(j) \/ (weight(i) = weight(j) /\ i <= j)
    IN analysis.detectionType = IF active = {} THEN "ml-detection" ELSE DetectionTypes[best]

\* s is an initial part of t
IsPrefix(s, t) == Len(s) <= Len(t) /\ \A i \in 1..Len(s) : t[i] = s[i]

\* the document d becomes the document e: the history is kept and extended,
\* and a change of status appends exactly one entry, with the new status
Tracked(d, e) ==
  /\ IsPrefix(d.statusHistory, e.statusHistory)
  /\ e.status # d.status =>
       /\ Len(e.statusHistory) = Len(d.statusHistory) + 1
       /\ e.statusHistory[Len(e.statusHistory)].status = e.status

\* C35: statusHistory is append-only and tracks status: the history of a
\* persisted transaction is never shortened or rewritten, every change of
\* status (of a persisted transaction, or of the document a Submit saved in its
\* session and then commits) appends exactly one entry with the new status,
\* and the last entry of the history is the current status
HistoryTracksStatus ==
  [][/\ \A t \in DOMAIN transactions :
          t \in DOMAIN transactions' /\ Tracked(transactions[t], transactions'[t])
     /\ \A p \in Procs :
          (pc[p] \in {"s_case", "s_hold", "s_process", "s_complete"}) =>
            IF pc'[p] = "idle"
            THEN tid[p] \in DOMAIN transactions' => Tracked(doc[p], transactions'[tid[p]])
            ELSE Tracked(doc[p], doc'[p])
     /\ \A t \in DOMAIN transactions' :
          LET h == transactions'[t].statusHistory
          IN h # <<>> /\ h[Len(h)].status = transactions'[t].status]_vars

\* a transfer was settled and then reversed: its history reads pending,
\* completed, reversed
HistoryOfReversed ==
  \E t \in DOMAIN transactions :
    /\ transactions[t].transactionType = "transfer"
    /\ transactions[t].status = "reversed"
    /\ Len(transactions[t].statusHistory) = 3
    /\ transactions[t].statusHistory[1].status = "pending"
    /\ transactions[t].statusHistory[2].status = "completed"
    /\ transactions[t].statusHistory[3].status = "reversed"

\* the moves of the lifecycle
Moves == {<<"pending", "completed">>, <<"pending", "failed">>, <<"completed", "reversed">>}

\* C36: status only moves along pending -> completed, pending -> failed and
\* completed -> reversed: every transaction record is first persisted as
\* pending (in the session of its Submit, or in the collection), failed and
\* reversed are terminal, and no transaction returns from completed or
\* reversed to pending
LifecycleMoves ==
  [][/\ \A t \in DOMAIN transactions :
          /\ t \in DOMAIN transactions'
          /\ \/ transactions'[t].status = transactions[t].status
             \/ <<transactions[t].status, transactions'[t].status>> \in Moves
     /\ \A p \in Procs :
          /\ (pc[p] = "s_save" /\ pc'[p] # "s_save") => doc'[p].status = "pending"
          /\ (pc[p] \in {"s_hold", "s_complete"} /\ tid[p] \in DOMAIN transactions') =>
               \/ transactions'[tid[p]].status = doc[p].status
               \/ <<doc[p].status, transactions'[tid[p]].status>> \in Moves
     /\ \A t \in DOMAIN transactions' \ DOMAIN transactions :
          \/ transactions'[t].status = "pending"
          \/ \E p \in Procs : pc[p] \in {"s_hold", "s_complete"} /\ tid[p] = t]_vars

RECURSIVE SumPending(_, _, _)
\* the amounts of the transactions 1..n in status pending that have a as source
SumPending(txs, a, n) ==
  IF n = 0 THEN 0
  ELSE SumPending(txs, a, n - 1) +
       (IF n \in DOMAIN txs /\ txs[n].sourceAccountId = a /\ txs[n].status = "pending"
        THEN txs[n].amount ELSE 0)

\* C37: reservation bookkeeping: whenever no request is in flight, the
\* pendingTransactions of each account is the sum of the amounts of the
\* pending transactions that have it as source, and is never negative; so a
\* Submit that completes leaves the reservation of its source as it found it
ReservationMatchesPending ==
  (\A p \in Procs : pc[p] = "idle") =>
    \A a \in DOMAIN accounts :
      /\ accounts[a].pendingTransactions = SumPending(transactions, a, MaxTx)
      /\ accounts[a].pendingTransactions >= 0

RECURSIVE SumBalances(_, _)
\* the sum of the balances of the accounts of S
SumBalances(accts, S) ==
  IF S = {} THEN 0
  ELSE LET a == CHOOSE x \in S : TRUE
       IN accts[a].balance + SumBalances(accts, S \ {a})

\* C38: conservation of money: a ledger mutation for a transaction with both
\* source and destination debits the one and credits the other by the same
\* amount or does neither, so that the sum of the balances of the accounts
\* changes only through deposits (by +amount) and through withdrawals and
\* payments without destination (by -amount)
MoneyConserved ==
  [][LET delta == SumBalances(accounts', DOMAIN accounts) - SumBalances(accounts, DOMAIN accounts)
         d == doc[1]
     IN \/ delta = 0
        \/ /\ d.sourceAccountId = None /\ d.destinationAccountId # None
           /\ delta = d.amount
        \/ /\ d.sourceAccountId # None /\ d.destinationAccountId = None
           /\ delta = -d.amount]_vars

\* C39: when createAccount has answered for an initialBalance above zero, the
\* balance and the availableBalance of the new account are that amount: the
\* initial deposit is not credited a second time
InitialBalanceOnce ==
  [][pc[1] = "a_deposit" /\ pc'[1] = "idle"
       => /\ accounts'[NewAcct].balance = doc[1].amount
          /\ accounts'[NewAcct].availableBalance = doc[1].amount]_vars

====
